---- MODULE Spec2Model ----
(***************************************************************************)
(* Model of the kindship CLI execution core: the entity execution          *)
(* lifecycle (cmd/run.go executeEntity), the execution backends            *)
(* (internal/executor) and the Process execution driver                    *)
(* (cmd/run.go runProcessExecution), run against a fake planning API.      *)
(***************************************************************************)
EXTENDS Integers, Sequences, FiniteSets, TLC

(* ------------------------------ bounds -------------------------------- *)

\* Largest number of child tasks a Process has in the scoped oracle.
MaxTasks == 3

(* --------------------------- api/models.go ---------------------------- *)

ExecutionModeLLMReasoning == "LLM_REASONING"
ExecutionModePythonSandbox == "PYTHON_SANDBOX"
ExecutionModeHybrid == "HYBRID"
ExecutionModeBash == "BASH"
ExecutionModePython == "PYTHON"
ExecutionModeAskUser == "ASK_USER"
\* The marker runProcessExecution sends for the Process run itself.
ProcessModeMarker == "PROCESS"
\* An execution_mode string the API may send that is none of the constants.
UnrecognisedMode == "WORKFLOW"

ExecutionModes ==
    {ExecutionModeLLMReasoning, ExecutionModePythonSandbox, ExecutionModeHybrid,
     ExecutionModeBash, ExecutionModePython, ExecutionModeAskUser, UnrecognisedMode}

ExecutionAttemptStatusRunning == "RUNNING"
ExecutionAttemptStatusSuccess == "SUCCESS"
ExecutionAttemptStatusFailed == "FAILED"
ExecutionAttemptStatusAbandoned == "ABANDONED"

ValidationOutcomePass == "PASS"
ValidationOutcomeFail == "FAIL"
ValidationOutcomeWarn == "WARN"

ValidationSeverityInfo == "INFO"
ValidationSeverityWarning == "WARNING"
ValidationSeverityCritical == "CRITICAL"

(* ------------------------------ errors -------------------------------- *)

\* Go's nil error.
NoError == "nil"
ErrAskUserSkipped == "ASK_USER task started, awaiting user response"
ErrFetchEntity == "failed to fetch entity"
ErrDependenciesNotMet == "dependencies not met"
ErrInputValidation == "input validation failed"
ErrStartExecution == "failed to start execution"
ErrUnknownMode == "unknown execution mode"
ErrCompleteExecution == "failed to complete execution"
ErrFetchNextTask == "failed to fetch next task"
ErrContextCanceled == "context canceled"
ErrStartProcessRun == "failed to start Process run"
ErrCompleteProcessRun == "failed to complete Process run"
ErrProcessInterrupted == "Process execution interrupted"
ErrProcessCompletedWithErrors == "Process completed with errors"

\* errors.Is(err, ErrAskUserSkipped): the sentinel is returned unwrapped.
IsAskUserSkipped(err) == err = ErrAskUserSkipped

(* ------------------------- values of the data ------------------------- *)

\* entity.Code: a nil pointer, the empty string, or a command text.
CodeNil == "<nil>"
CodeEmpty == ""
CodeCmd == "cmd"
Codes == {CodeNil, CodeEmpty, CodeCmd}

\* A JSON schema document is modelled by the set of its constraints.
NoSchema == {}
SomeSchema == {"required"}
Schemas == {NoSchema, SomeSchema}

\* Resolved-input maps: one that conforms to SomeSchema and one that does not.
InputsConforming == "inputs_conforming"
InputsViolating == "inputs_violating"
InputMaps == {InputsConforming, InputsViolating}
NoInputs == "inputs_none"

\* Captured stdout texts: a clean JSON object that conforms to SomeSchema, a
\* clean JSON object that violates it, and a text without any brace.
StdoutConforming == "{\"a\":1}"
StdoutViolating == "{\"b\":1}"
StdoutNoBrace == "hello"
StdoutTexts == {StdoutConforming, StdoutViolating, StdoutNoBrace}

ObjConforming == "obj{a:1}"
ObjViolating == "obj{b:1}"
NilObj == "obj_nil"

(* ------------------------ internal/validator -------------------------- *)

\* ValidateInputs: nil when the schema is empty, else the verdict of the
\* schema library on the inputs.
ValidateInputs(inputs, schema) ==
    IF Cardinality(schema) = 0 THEN NoError
    ELSE IF inputs = InputsConforming THEN NoError ELSE ErrInputValidation

\* ValidateOutputs: same shape as ValidateInputs.
ValidateOutputs(outputs, schema) ==
    IF Cardinality(schema) = 0 THEN NoError
    ELSE IF outputs = ObjConforming THEN NoError ELSE "output validation failed"

\* ExtractJSONFromOutput on the three stdout texts: (object, error).
ExtractJSONFromOutput(stdout) ==
    IF stdout = StdoutConforming THEN [obj |-> ObjConforming, err |-> NoError]
    ELSE IF stdout = StdoutViolating THEN [obj |-> ObjViolating, err |-> NoError]
    ELSE [obj |-> NilObj, err |-> "no JSON object found in output"]

(* ------------------------- internal/executor -------------------------- *)

TimeoutExitCode == 124

\* How cmd.Run() can end: err is "nil", "ExitError" (the child exited with a
\* nonzero status or was killed) or "other" (the child could not be launched);
\* deadline tells whether execCtx.Err() is DeadlineExceeded afterwards. A
\* command that exits 0 prints any of the stdout texts; one that fails has
\* printed the text without JSON before it failed.
ExitStatuses == {1, TimeoutExitCode}

CmdRunOutcomes ==
    {[err |-> "nil", deadline |-> FALSE, code |-> 0, stdout |-> s] : s \in StdoutTexts}
    \cup {[err |-> "ExitError", deadline |-> FALSE, code |-> c, stdout |-> StdoutNoBrace] :
            c \in ExitStatuses}
    \cup {[err |-> "ExitError", deadline |-> TRUE, code |-> -1, stdout |-> StdoutNoBrace]}
    \cup {[err |-> "other", deadline |-> FALSE, code |-> 0, stdout |-> ""]}

\* The reasoning-agent tool runs without a deadline at this layer.
LLMRunOutcomes == {r \in CmdRunOutcomes : ~r.deadline}

NoResult == [Success |-> FALSE, Stdout |-> "", ExitCode |-> 0, Error |-> "none"]

\* ExecuteBashWithContext when the exit code of the process is looked at
\* before the deadline.
ExecuteBashWithContext_ExitCodeFirst(code, run) ==
    IF code = CodeNil \/ code = CodeEmpty
    THEN [Success |-> FALSE, Stdout |-> "", ExitCode |-> 1,
          Error |-> "no code provided for BASH execution"]
    ELSE LET exitCode == IF run.err = "nil" THEN 0
                         ELSE IF run.err = "ExitError" THEN run.code ELSE 1
         IN [Success |-> exitCode = 0, Stdout |-> run.stdout, ExitCode |-> exitCode,
             Error |-> run.err]

\* ExecuteBashWithContext: run is the outcome of cmd.Run() (unused when the
\* code is missing, because no command is built then).
ExecuteBashWithContext(code, run) ==
    IF code = CodeNil \/ code = CodeEmpty
    THEN [Success |-> FALSE, Stdout |-> "", ExitCode |-> 1,
          Error |-> "no code provided for BASH execution"]
    ELSE IF run.err # "nil" /\ run.deadline
    THEN [Success |-> FALSE, Stdout |-> run.stdout, ExitCode |-> TimeoutExitCode,
          Error |-> "execution timed out"]
    ELSE LET exitCode == IF run.err = "nil" THEN 0
                         ELSE IF run.err = "ExitError" THEN run.code ELSE 1
         IN [Success |-> exitCode = 0, Stdout |-> run.stdout, ExitCode |-> exitCode,
             Error |-> run.err]

\* ExecutePythonWithContext when only a nil code pointer is refused.
ExecutePythonWithContext_RunsEmptyCode(code, run) ==
    IF code = CodeNil
    THEN [Success |-> FALSE, Stdout |-> "", ExitCode |-> 1,
          Error |-> "no code provided for PYTHON execution"]
    ELSE IF run.err # "nil" /\ run.deadline
    THEN [Success |-> FALSE, Stdout |-> run.stdout, ExitCode |-> TimeoutExitCode,
          Error |-> "execution timed out"]
    ELSE LET exitCode == IF run.err = "nil" THEN 0
                         ELSE IF run.err = "ExitError" THEN run.code ELSE 1
         IN [Success |-> exitCode = 0, Stdout |-> run.stdout, ExitCode |-> exitCode,
             Error |-> run.err]

ExecutePythonWithContext(code, run) ==
    IF code = CodeNil \/ code = CodeEmpty
    THEN [Success |-> FALSE, Stdout |-> "", ExitCode |-> 1,
          Error |-> "no code provided for PYTHON execution"]
    ELSE IF run.err # "nil" /\ run.deadline
    THEN [Success |-> FALSE, Stdout |-> run.stdout, ExitCode |-> TimeoutExitCode,
          Error |-> "execution timed out"]
    ELSE LET exitCode == IF run.err = "nil" THEN 0
                         ELSE IF run.err = "ExitError" THEN run.code ELSE 1
         IN [Success |-> exitCode = 0, Stdout |-> run.stdout, ExitCode |-> exitCode,
             Error |-> run.err]

ExecuteLLM(run) ==
    LET exitCode == IF run.err = "nil" THEN 0
                    ELSE IF run.err = "ExitError" THEN run.code ELSE 1
    IN [Success |-> exitCode = 0, Stdout |-> run.stdout, ExitCode |-> exitCode,
        Error |-> run.err]

(* ------------------------------- state -------------------------------- *)

VARIABLES
    \* the fake planning API
    runs,            \* runs created by start-execution, indexed by run identifier
    planned,         \* number of child tasks of the Process in the scoped oracle
    fetchCount,      \* child tasks the scoped oracle has yielded so far
    lastStartReq,    \* the ExecutionStartRequest built by the caller of start-execution (gone when it returns)
    \* the signal handler goroutine
    cancelled,       \* ctx.Done() is closed
    cancelAt,        \* when the signal arrived: before the Process run was
                     \* created, or during the run; in runLoop, while a
                     \* fetch-next-task call was in flight, or at another time
    \* runProcessExecution
    ppc,             \* position of the Process driver
    processRunID,
    tasksExecuted,
    lastError,
    interrupted,
    exitReason,      \* how the driver loop was left
    processCompleteReq,
    processCompleteCalls,
    pret,            \* the error runProcessExecution returns
    childResults,    \* what each child lifecycle returned, in dispatch order
    \* executeEntity
    epc,             \* position of the lifecycle
    params,          \* EntityExecutionParams.EntityID
    entityResp,
    startResp,
    backend,         \* the backend that was dispatched and the inputs handed to it
    result,
    completeReq,
    calls,           \* API and backend calls made by this lifecycle invocation
    ret,             \* (success, err) returned by executeEntity
    \* runLoop (cmd/agent.go)
    lpc,             \* position of the startup thread and poll loop
    recoverErr,      \* the error of client.RecoverRuns
    pendingResumes,  \* the entries the range loop over ResumedRuns has yet to visit
    activeResumes,   \* the keys of the package-level sync.Map
    resumptions,     \* the resumption goroutines that are running, in launch order
    resumeErrLogged, \* a resumption returned an error, which its goroutine logged
    lastFetch,       \* (nextResp, err) of the latest fetch-next-task call
    lastTask,        \* (success, err) of the latest executeEntity call of the loop,
                     \* unset while that call is in progress
    timerFired,      \* the timer of the sleep in progress has fired
    lret,            \* the error runLoop returns
    \* buildEnvWithInputs and the commands of two concurrent executions
    inputFiles,      \* content of the files of inputDir, per path
    xpc,             \* position of each execution
    xinputs,         \* the inputs map handed to each execution
    xpending,        \* labels the range loop of each execution has yet to visit
    xenv,            \* labels for which each execution exported INPUT_<LABEL>_FILE
    xinline,         \* the INPUT_<LABEL>=<json> entries each execution appended to env
    \* limitedWriter
    wbuf,            \* w.buf
    wlimit,          \* w.limit
    wwritten,        \* every chunk passed to Write so far, concatenated
    wret,            \* the count the latest Write returned
    \* ExecuteBashWithContext / ExecutePythonWithContext, one invocation
    bpc,             \* position of the invocation
    bname,           \* which of the two functions was called
    bcode,           \* entity.Code
    spawned,         \* processes started by cmd.Run()
    procStatus,      \* how the process ended
    deadlineExceeded, \* execCtx.Err() is context.DeadlineExceeded
    shortWrite,      \* the copy loop of cmd.Stdout stopped on a short write
    bresult,         \* the ExecutionResult returned
    \* validator.ExtractJSONFromOutput, one call
    jin,             \* the stdout text passed in, and how it was made
    jpc,             \* position of the call
    jres             \* the (map, error) returned

apiVars == <<runs, planned, fetchCount, lastStartReq>>
pVars == <<ppc, processRunID, tasksExecuted, lastError, interrupted, exitReason,
           processCompleteReq, processCompleteCalls, pret, childResults>>
eVars == <<epc, params, entityResp, startResp, backend, result, completeReq, calls, ret>>
sigVars == <<cancelled, cancelAt>>
loopVars == <<lpc, recoverErr, pendingResumes, activeResumes, resumptions,
              resumeErrLogged, lastFetch,
              lastTask, timerFired, lret>>
\* The state of the components an action of the execution core leaves alone.
envVars == <<inputFiles, xpc, xinputs, xpending, xenv, xinline>>
writerVars == <<wbuf, wlimit, wwritten, wret>>
\* The state inside internal/executor that the lifecycle does not look at.
runVars == <<bpc, bname, bcode, spawned, procStatus, deadlineExceeded, shortWrite, bresult>>
execVars == <<envVars, writerVars, runVars>>
\* One call of validator.ExtractJSONFromOutput.
jsonVars == <<jin, jpc, jres>>
auxVars == <<loopVars, execVars, jsonVars>>
vars == <<apiVars, sigVars, pVars, eVars, auxVars>>

(* ----------------------- values before assignment --------------------- *)

NoEntityResp ==
    [ExecutionMode |-> "", AllMet |-> FALSE, InputSchema |-> NoSchema,
     OutputSchema |-> NoSchema, Inputs |-> NoInputs, Code |-> CodeNil]
NoStartReq == [EntityID |-> -1, ExecutionMode |-> ""]
NoStartResp == [ExecutionID |-> 0, Inputs |-> NoInputs]
NoBackend == [name |-> "none", inputs |-> NoInputs]
NoCompleteReq ==
    [Status |-> "", FailureReason |-> <<>>, Stdout |-> "", ExitCode |-> 0,
     Structured |-> NilObj, ValidationRecords |-> <<>>]
NoProcessCompleteReq ==
    [Status |-> "", FailureReason |-> NoError, tasks_executed |-> 0, interrupted |-> FALSE]
NoCalls == [fetch |-> 0, start |-> 0, dispatch |-> 0, complete |-> 0]
NoRet == [success |-> FALSE, err |-> "<running>"]

\* The entity identifier of the Process; child task i has identifier i.
ProcessEntityID == 0

(* --------------------- responses of the fake API ---------------------- *)

\* The modes whose backend reads entity.Code.
CodeModes == {ExecutionModeBash, ExecutionModePython, ExecutionModePythonSandbox}

\* fetch-entity-for-execution responses for a leaf task. The code payload is
\* varied for the modes whose backend reads it, and the resolved inputs can
\* violate the input schema only when there is one.
EntityResponses ==
    {r \in [ExecutionMode : ExecutionModes, AllMet : BOOLEAN, InputSchema : Schemas,
            OutputSchema : Schemas, Inputs : InputMaps, Code : Codes] :
        /\ r.ExecutionMode \notin CodeModes => r.Code = CodeNil
        /\ r.InputSchema = NoSchema => r.Inputs = InputsConforming}

\* start-execution: the server assigns the next run identifier.
NewRun(entityID) ==
    [EntityID |-> entityID, Status |-> ExecutionAttemptStatusRunning, completes |-> 0]

\* complete-execution as the API sees it: the call is counted, and the status
\* is recorded when the API accepts the request.
ApiComplete(rs, id, status, ok) ==
    [rs EXCEPT ![id] = [@ EXCEPT !.completes = @ + 1,
                                 !.Status = IF ok THEN status ELSE @]]

(* ---------------------- executeEntity (cmd/run.go) -------------------- *)

\* PreconditionError without the dependency check.
PreconditionError_NoDependencyCheck(resp) ==
    IF Cardinality(resp.InputSchema) > 0
       /\ ValidateInputs(resp.Inputs, resp.InputSchema) # NoError
    THEN ErrInputValidation
    ELSE NoError

\* Steps 2 and 2b: the precondition checks on the fetched entity.
PreconditionError(resp) ==
    IF ~resp.AllMet THEN ErrDependenciesNotMet
    ELSE IF Cardinality(resp.InputSchema) > 0
            /\ ValidateInputs(resp.Inputs, resp.InputSchema) # NoError
    THEN ErrInputValidation
    ELSE NoError

\* IsAskUser when ASK_USER is not special-cased.
IsAskUser_Never(mode) == FALSE

\* The ASK_USER test after the run was created.
IsAskUser(mode) == mode = ExecutionModeAskUser

\* BackendFor when the default case falls back to the reasoning agent.
BackendFor_DefaultsToLLM(mode) ==
    IF mode = ExecutionModeLLMReasoning THEN "llm"
    ELSE IF mode = ExecutionModeBash THEN "bash"
    ELSE IF mode = ExecutionModePython THEN "python"
    ELSE IF mode = ExecutionModePythonSandbox THEN "python"
    ELSE "llm"

\* Step 4: the switch on the execution mode.
BackendFor(mode) ==
    IF mode = ExecutionModeLLMReasoning THEN "llm"
    ELSE IF mode = ExecutionModeBash THEN "bash"
    ELSE IF mode = ExecutionModePython THEN "python"
    ELSE IF mode = ExecutionModePythonSandbox THEN "python"
    ELSE IF mode = ExecutionModeHybrid THEN "llm"
    ELSE "none"

\* BackendInputs when the inputs of the entity fetch are passed on.
BackendInputs_FromFetch(fetched, started) == fetched.Inputs

\* The inputs argument of the backend call: of the fetch response and the
\* start-execution response, the inputs of the latter.
BackendInputs(fetched, started) == started.Inputs

RunOutcomesOf(name) == IF name = "llm" THEN LLMRunOutcomes ELSE CmdRunOutcomes

Execute(name, code, run) ==
    IF name = "bash" THEN ExecuteBashWithContext(code, run)
    ELSE IF name = "python" THEN ExecutePythonWithContext(code, run)
    ELSE ExecuteLLM(run)

NoValidationRecord == <<>>

\* OutputValidation when a failed extraction leaves no record.
OutputValidation_SilentExtractionFailure(res, outputSchema) ==
    IF res.Success /\ Cardinality(outputSchema) > 0
    THEN LET ex == ExtractJSONFromOutput(res.Stdout)
         IN IF ex.err # NoError
            THEN [structured |-> NilObj, record |-> NoValidationRecord]
            ELSE IF ValidateOutputs(ex.obj, outputSchema) # NoError
            THEN [structured |-> ex.obj,
                  record |-> <<[ValidationType |-> "OUTPUT_SCHEMA",
                                Outcome |-> ValidationOutcomeFail,
                                Severity |-> ValidationSeverityWarning]>>]
            ELSE [structured |-> ex.obj,
                  record |-> <<[ValidationType |-> "OUTPUT_SCHEMA",
                                Outcome |-> ValidationOutcomePass,
                                Severity |-> ValidationSeverityInfo]>>]
    ELSE [structured |-> NilObj, record |-> NoValidationRecord]

\* Step 4b: extraction and output-schema validation, only for successful
\* executions of an entity with an output schema.
OutputValidation(res, outputSchema) ==
    IF res.Success /\ Cardinality(outputSchema) > 0
    THEN LET ex == ExtractJSONFromOutput(res.Stdout)
         IN IF ex.err # NoError
            THEN [structured |-> NilObj,
                  record |-> <<[ValidationType |-> "OUTPUT_SCHEMA",
                                Outcome |-> ValidationOutcomeWarn,
                                Severity |-> ValidationSeverityWarning]>>]
            ELSE IF ValidateOutputs(ex.obj, outputSchema) # NoError
            THEN [structured |-> ex.obj,
                  record |-> <<[ValidationType |-> "OUTPUT_SCHEMA",
                                Outcome |-> ValidationOutcomeFail,
                                Severity |-> ValidationSeverityWarning]>>]
            ELSE [structured |-> ex.obj,
                  record |-> <<[ValidationType |-> "OUTPUT_SCHEMA",
                                Outcome |-> ValidationOutcomePass,
                                Severity |-> ValidationSeverityInfo]>>]
    ELSE [structured |-> NilObj, record |-> NoValidationRecord]

\* CompletionStatus when a failed output validation fails the run.
CompletionStatus_ValidationFails(res, ov) ==
    IF res.Success /\ (ov.record = NoValidationRecord
                        \/ ov.record[1].Outcome = ValidationOutcomePass)
    THEN ExecutionAttemptStatusSuccess
    ELSE ExecutionAttemptStatusFailed

\* Step 5: the status of the completion request.
CompletionStatus(res, ov) ==
    IF res.Success THEN ExecutionAttemptStatusSuccess ELSE ExecutionAttemptStatusFailed

\* Step 5: the completion request built from the backend result.
BuildCompleteRequest(res, ov) ==
    IF res.Success
    THEN [Status |-> CompletionStatus(res, ov), FailureReason |-> <<>>,
          Stdout |-> res.Stdout, ExitCode |-> res.ExitCode,
          Structured |-> ov.structured,
          ValidationRecords |->
              <<[ValidationType |-> "OUTPUT", Outcome |-> ValidationOutcomePass,
                 Severity |-> ValidationSeverityInfo]>> \o ov.record]
    ELSE [Status |-> CompletionStatus(res, ov),
          FailureReason |-> <<res.ExitCode, res.Error>>,
          Stdout |-> res.Stdout, ExitCode |-> res.ExitCode,
          Structured |-> NilObj,
          ValidationRecords |->
              <<[ValidationType |-> "OUTPUT", Outcome |-> ValidationOutcomeFail,
                 Severity |-> ValidationSeverityCritical]>>]

\* LifecycleReturn when a backend failure is returned as an error.
LifecycleReturn_ErrorOnFailure(res, completeOk) ==
    IF ~completeOk THEN [success |-> FALSE, err |-> ErrCompleteExecution]
    ELSE IF ~res.Success THEN [success |-> FALSE, err |-> "execution failed"]
    ELSE [success |-> TRUE, err |-> NoError]

\* LifecycleReturn when the success flag survives a failed completion call.
LifecycleReturn_KeepsFlag(res, completeOk) ==
    IF ~completeOk THEN [success |-> res.Success, err |-> ErrCompleteExecution]
    ELSE [success |-> res.Success, err |-> NoError]

\* Step 6: what executeEntity returns after the complete-execution call.
LifecycleReturn(res, completeOk) ==
    IF ~completeOk THEN [success |-> FALSE, err |-> ErrCompleteExecution]
    ELSE [success |-> res.Success, err |-> NoError]

\* StepAfter when the lifecycle goes from start-execution to
\* complete-execution.
StepAfter_SkipsDispatch(step) ==
    IF step = "fetch" THEN "start"
    ELSE IF step = "start" THEN "complete"
    ELSE IF step = "dispatch" THEN "complete"
    ELSE "returned"

\* The step the lifecycle goes on with after a step that did not return:
\* fetch and checks, start-execution, dispatch and output validation,
\* complete-execution, return.
StepAfter(step) ==
    IF step = "fetch" THEN "start"
    ELSE IF step = "start" THEN "dispatch"
    ELSE IF step = "dispatch" THEN "complete"
    ELSE "returned"

Returned(success, err) ==
    /\ epc' = "returned"
    /\ ret' = [success |-> success, err |-> err]

\* Step 1 (fetch), step 2 and step 2b, up to the start-execution call.
EE_Fetch ==
    /\ epc = "fetch"
    /\ calls' = [calls EXCEPT !.fetch = @ + 1]
    /\ \/ /\ entityResp' = entityResp
          /\ Returned(FALSE, ErrFetchEntity)
       \/ \E resp \in EntityResponses :
             /\ entityResp' = resp
             /\ IF PreconditionError(resp) # NoError
                THEN Returned(FALSE, PreconditionError(resp))
                ELSE epc' = StepAfter("fetch") /\ ret' = ret
    /\ UNCHANGED <<auxVars, apiVars, sigVars, pVars, params, startResp, backend, result,
                   completeReq>>

\* Step 3 (start-execution) and the ASK_USER return.
EE_Start ==
    /\ epc = "start"
    /\ calls' = [calls EXCEPT !.start = @ + 1]
    /\ lastStartReq' = [EntityID |-> params, ExecutionMode |-> entityResp.ExecutionMode]
    /\ \/ /\ Returned(FALSE, ErrStartExecution)
          /\ UNCHANGED <<runs, startResp>>
       \/ \E inputs \in InputMaps :
             /\ runs' = Append(runs, NewRun(params))
             /\ startResp' = [ExecutionID |-> Len(runs) + 1, Inputs |-> inputs]
             /\ IF IsAskUser(entityResp.ExecutionMode)
                THEN Returned(FALSE, ErrAskUserSkipped)
                ELSE epc' = StepAfter("start") /\ ret' = ret
    /\ UNCHANGED <<auxVars, planned, fetchCount, sigVars, pVars, params, entityResp, backend,
                   result, completeReq>>

\* Step 4 (dispatch to the backend and wait for it), step 4b and step 5.
EE_Dispatch ==
    /\ epc = "dispatch"
    /\ LET name == BackendFor(entityResp.ExecutionMode)
       IN IF name = "none"
          THEN /\ Returned(FALSE, ErrUnknownMode)
               /\ UNCHANGED <<backend, result, completeReq, calls>>
          ELSE \E run \in RunOutcomesOf(name) :
                  LET res == Execute(name, entityResp.Code, run)
                      ov == OutputValidation(res, entityResp.OutputSchema)
                  IN /\ backend' = [name |-> name,
                                     inputs |-> BackendInputs(entityResp, startResp)]
                     /\ calls' = [calls EXCEPT !.dispatch = @ + 1]
                     /\ result' = res
                     /\ completeReq' = BuildCompleteRequest(res, ov)
                     /\ epc' = StepAfter("dispatch")
                     /\ ret' = ret
    /\ UNCHANGED <<auxVars, apiVars, sigVars, pVars, params, entityResp, startResp>>

\* Step 6 (complete-execution) and the return.
EE_Complete ==
    /\ epc = "complete"
    /\ calls' = [calls EXCEPT !.complete = @ + 1]
    /\ \E ok \in BOOLEAN :
          /\ runs' = ApiComplete(runs, startResp.ExecutionID, completeReq.Status, ok)
          /\ epc' = StepAfter("complete")
          /\ ret' = LifecycleReturn(result, ok)
    /\ UNCHANGED <<auxVars, planned, fetchCount, lastStartReq, sigVars, pVars, params,
                   entityResp, startResp, backend, result, completeReq>>

(* ----------------- runProcessExecution (cmd/run.go) ------------------- *)

\* RecordChildError without the errors.Is(err, ErrAskUserSkipped) exception.
RecordChildError_RecordsAskUser(success, err, le) ==
    IF err # NoError THEN err ELSE le

\* ExecuteEntityReturned when the caller goes on without waiting for the call.
ExecuteEntityReturned_NotAwaited(pc) == TRUE

\* executeEntity is an ordinary call: its caller goes on when it has returned.
ExecuteEntityReturned(pc) == pc = "returned"

\* The bookkeeping after a child lifecycle returned (success, err).
RecordChildError(success, err, le) ==
    IF err # NoError /\ ~IsAskUserSkipped(err) THEN err ELSE le

\* RecordChildCount when every child that returned no error is counted.
RecordChildCount_CountsFailures(success, err, te) ==
    IF err # NoError /\ ~IsAskUserSkipped(err) THEN te ELSE te + 1

RecordChildCount(success, err, te) ==
    IF err # NoError /\ ~IsAskUserSkipped(err) THEN te
    ELSE IF success THEN te + 1 ELSE te

\* AfterChild when the driver stops after its first child.
AfterChild_OneIteration(success, err) == "complete"

\* AfterChild when a failed child ends the loop.
AfterChild_StopsOnFailure(success, err) ==
    IF ~success /\ ~IsAskUserSkipped(err) THEN "complete" ELSE "check"

\* Where the driver goes after a child lifecycle returned: back to the top of
\* the loop, whatever the child returned.
AfterChild(success, err) == "check"

\* ProcessStatus when a recorded error takes precedence over the interruption.
ProcessStatus_ErrorFirst(intr, le) ==
    IF le # NoError THEN ExecutionAttemptStatusFailed
    ELSE IF intr THEN ExecutionAttemptStatusAbandoned
    ELSE ExecutionAttemptStatusSuccess

\* The status of the Process run in the completion request.
ProcessStatus(intr, le) ==
    IF intr THEN ExecutionAttemptStatusAbandoned
    ELSE IF le # NoError THEN ExecutionAttemptStatusFailed
    ELSE ExecutionAttemptStatusSuccess

ProcessFailureReason(intr, le) ==
    IF intr THEN "Process execution interrupted by signal"
    ELSE IF le # NoError THEN le
    ELSE NoError

BuildProcessCompleteRequest(intr, le, te) ==
    [Status |-> ProcessStatus(intr, le), FailureReason |-> ProcessFailureReason(intr, le),
     tasks_executed |-> te, interrupted |-> intr]

\* What runProcessExecution returns after the complete-execution call.
ProcessReturn(completeOk, intr, le) ==
    IF ~completeOk THEN ErrCompleteProcessRun
    ELSE IF intr THEN ErrProcessInterrupted
    ELSE IF le # NoError THEN ErrProcessCompletedWithErrors
    ELSE NoError

ResetLifecycle ==
    /\ epc' = "idle"
    /\ params' = -1
    /\ entityResp' = NoEntityResp
    /\ startResp' = NoStartResp
    /\ backend' = NoBackend
    /\ result' = NoResult
    /\ completeReq' = NoCompleteReq
    /\ calls' = NoCalls
    /\ ret' = NoRet
    /\ lastStartReq' = NoStartReq

\* ProcessStartRequest when the Process run is started under a leaf mode.
ProcessStartRequest_LeafMode ==
    [EntityID |-> ProcessEntityID, ExecutionMode |-> ExecutionModeLLMReasoning]

\* The ExecutionStartRequest the driver builds for the Process entity.
ProcessStartRequest ==
    [EntityID |-> ProcessEntityID, ExecutionMode |-> ProcessModeMarker]

\* The start-execution call that creates the run of the Process itself.
P_Start ==
    /\ ppc = "start"
    /\ lastStartReq' = ProcessStartRequest
    /\ \/ /\ pret' = ErrStartProcessRun
          /\ ppc' = "done"
          /\ UNCHANGED <<runs, processRunID>>
       \/ /\ runs' = Append(runs, NewRun(ProcessEntityID))
          /\ processRunID' = Len(runs) + 1
          /\ ppc' = "check"
          /\ pret' = pret
    /\ UNCHANGED <<auxVars, planned, fetchCount, sigVars, tasksExecuted, lastError, interrupted,
                   exitReason, processCompleteReq, processCompleteCalls, childResults,
                   eVars>>

\* The cancellation check at the top of the loop.
P_Check ==
    /\ ppc = "check"
    /\ IF cancelled
       THEN /\ interrupted' = TRUE
            /\ lastError' = ErrContextCanceled
            /\ exitReason' = "cancelled"
            /\ ppc' = "complete"
       ELSE /\ ppc' = "fetch"
            /\ UNCHANGED <<interrupted, lastError, exitReason>>
    /\ UNCHANGED <<auxVars, apiVars, sigVars, processRunID, tasksExecuted, processCompleteReq,
                   processCompleteCalls, pret, childResults, eVars>>

\* Largest number of child runs for which an oracle that never runs dry is
\* followed.
MaxRepeatRuns == 1

\* The value of planned for a scoped oracle that never runs dry: whenever it
\* is asked it can yield a task again.
Endless == -1

\* Whether the oracle has a task to yield, and which one: a finite oracle
\* yields its children one after the other, an endless one yields task 1
\* every time.
OracleHasTask(fc, pl) == IF pl = Endless THEN TRUE ELSE fc < pl
NextYield(fc, pl) == IF pl = Endless THEN 1 ELSE fc + 1

\* The results kept of the children: all of them for a finite oracle, the
\* latest one for an endless oracle.
RecordChildResult(results, r, pl) == IF pl = Endless THEN <<r>> ELSE Append(results, r)

\* The scoped fetch-next-task call: an error, no task, or the next child, which
\* is then handed to executeEntity.
P_Fetch ==
    /\ ppc = "fetch"
    /\ \/ /\ lastError' = ErrFetchNextTask
          /\ exitReason' = "fetch_error"
          /\ ppc' = "complete"
          /\ UNCHANGED <<fetchCount, eVars>>
       \/ /\ ~OracleHasTask(fetchCount, planned)
          /\ exitReason' = "exhausted"
          /\ ppc' = "complete"
          /\ UNCHANGED <<fetchCount, lastError, eVars>>
       \/ /\ OracleHasTask(fetchCount, planned)
          /\ planned = Endless => Len(runs) <= MaxRepeatRuns
          /\ fetchCount' = NextYield(fetchCount, planned)
          /\ ppc' = "exec"
          /\ epc' = "fetch"
          /\ params' = NextYield(fetchCount, planned)
          /\ UNCHANGED <<lastError, exitReason, entityResp, startResp, backend, result,
                         completeReq, calls, ret>>
    /\ UNCHANGED <<auxVars, runs, planned, lastStartReq, sigVars, processRunID, tasksExecuted,
                   interrupted, processCompleteReq, processCompleteCalls, pret,
                   childResults>>

\* executeEntity has returned to the driver.
P_ChildReturned ==
    /\ ppc = "exec"
    /\ ExecuteEntityReturned(epc)
    /\ lastError' = RecordChildError(ret.success, ret.err, lastError)
    /\ tasksExecuted' = RecordChildCount(ret.success, ret.err, tasksExecuted)
    /\ childResults' = RecordChildResult(childResults, ret, planned)
    /\ ppc' = AfterChild(ret.success, ret.err)
    /\ ResetLifecycle
    /\ UNCHANGED <<auxVars, runs, planned, fetchCount, sigVars, processRunID, interrupted, exitReason,
                   processCompleteReq, processCompleteCalls, pret>>

\* The complete-execution call for the Process run and the return.
P_Complete ==
    /\ ppc = "complete"
    /\ processCompleteReq' = BuildProcessCompleteRequest(interrupted, lastError, tasksExecuted)
    /\ processCompleteCalls' = processCompleteCalls + 1
    /\ \E ok \in BOOLEAN :
          /\ runs' = ApiComplete(runs, processRunID, processCompleteReq'.Status, ok)
          /\ pret' = ProcessReturn(ok, interrupted, lastError)
    /\ ppc' = "done"
    /\ UNCHANGED <<auxVars, planned, fetchCount, lastStartReq, sigVars, processRunID,
                   tasksExecuted, lastError, interrupted, exitReason, childResults, eVars>>

\* SIGTERM or SIGINT arrives: the signal goroutine calls cancel().
Cancel ==
    /\ ~cancelled
    /\ ppc # "done"
    /\ cancelled' = TRUE
    /\ cancelAt' = IF ppc = "start" THEN "before_run" ELSE "during_run"
    /\ UNCHANGED <<auxVars, apiVars, pVars, eVars>>

(* ------------------------ runLoop (cmd/agent.go) ---------------------- *)

\* Largest number of entries in the resumed list of a recover-runs response.
MaxResumed == 2
\* Largest number of tasks the agent-scoped oracle hands to the poll loop.
MaxQueue == 1

\* The execution mode the startup loop compares each resumed entry with.
ExecutionModeOrchestrate == "ORCHESTRATE"

RunIDs == {"run-A", "run-B"}
\* The entity a run left Running belongs to (a fact of the server).
EntityOfRun(r) == IF r = "run-A" THEN "process-A" ELSE "process-B"

\* The entries a recover-runs response can list as resumed: the mode string is
\* the one the run was started with.
ResumedModes == {ExecutionModeOrchestrate, ProcessModeMarker}
ResumedRunEntries ==
    {[RunID |-> r, EntityID |-> EntityOfRun(r), ExecutionMode |-> m] :
        r \in RunIDs, m \in ResumedModes}

SeqsUpTo(S, n) == UNION {[1..k -> S] : k \in 0..n}

ErrRecoverRuns == "failed to recover runs"
\* What the server did with the other runs it found Running: nothing was
\* left, or one leaf run was force-failed and one ask-user run was skipped.
RecoveryCounts == {[failed |-> 0, skipped |-> 0], [failed |-> 1, skipped |-> 1]}
RecoverFailure ==
    [err |-> ErrRecoverRuns, ResumedRuns |-> <<>>, FailedCount |-> 0, SkippedAskUser |-> 0]
RecoverResponses ==
    {[err |-> NoError, ResumedRuns |-> rr, FailedCount |-> c.failed,
      SkippedAskUser |-> c.skipped] :
        rr \in SeqsUpTo(ResumedRunEntries, MaxResumed), c \in RecoveryCounts}

\* The error a resumption can return.
ErrResumeOrchestration == "failed to resume ORCHESTRATE run"

NoFetch == "none"
NoTask == [success |-> FALSE, err |-> "<none>"]

\* LoadOrStore when the key is stored without looking at what is there.
LoadOrStore_AlwaysStores(m, key) == [loaded |-> FALSE, map |-> m \cup {key}]

\* sync.Map.LoadOrStore(key, true): one atomic step.
LoadOrStore(m, key) == [loaded |-> key \in m, map |-> m \cup {key}]

\* The test the startup loop makes on a resumed entry before it looks at the
\* active-resumes set.
ShouldResume(entry) == entry.ExecutionMode = ExecutionModeOrchestrate

\* AfterRecover when a failed recovery ends runLoop.
AfterRecover_Fatal(resp) ==
    IF resp.err # NoError THEN "returned"
    ELSE IF Len(resp.ResumedRuns) = 0 THEN "check" ELSE "launch"

\* Where the startup thread goes after the recover-runs call.
AfterRecover(resp) ==
    IF resp.err # NoError \/ Len(resp.ResumedRuns) = 0 THEN "check" ELSE "launch"

\* AfterResumeEntry when the startup thread waits for the resumptions it
\* launched before it polls.
AfterResumeEntry_Joins(rest) == IF Len(rest) = 0 THEN "join" ELSE "launch"

\* Where the startup thread goes after an entry, given the entries left.
AfterResumeEntry(rest) == IF Len(rest) = 0 THEN "check" ELSE "launch"

\* AfterFetch when an empty queue is polled again at once.
AfterFetch_BusyPoll(outcome) ==
    IF outcome = "error" THEN "sleep" ELSE IF outcome = "no_task" THEN "check" ELSE "exec"

\* Where the poll loop goes after fetch-next-task returned.
AfterFetch(outcome) == IF outcome \in {"error", "no_task"} THEN "sleep" ELSE "exec"

\* AfterTask when an error of executeEntity ends the loop.
AfterTask_ReturnsOnError(success, err) ==
    IF err # NoError /\ ~IsAskUserSkipped(err) THEN "returned" ELSE "check"

\* Where the poll loop goes after executeEntity returned: the outcome is
\* logged and the loop starts its next iteration.
AfterTask(success, err) == "check"

\* SleepWithContext when the sleep does not watch the context.
SleepWithContext_Uninterruptible(isCancelled, fired) == IF fired THEN {FALSE} ELSE {}

\* sleepWithContext: the values the select can return, given which of its two
\* channels are ready.
SleepWithContext(isCancelled, fired) ==
    (IF isCancelled THEN {TRUE} ELSE {}) \cup (IF fired THEN {FALSE} ELSE {})

\* client.RecoverRuns and the log of its outcome.
L_Recover ==
    /\ lpc = "recover"
    /\ \E resp \in RecoverResponses \cup {RecoverFailure} :
          /\ recoverErr' = resp.err
          /\ pendingResumes' = resp.ResumedRuns
          /\ lpc' = AfterRecover(resp)
          /\ lret' = IF AfterRecover(resp) = "returned" THEN resp.err ELSE lret
    /\ UNCHANGED <<resumeErrLogged, execVars, jsonVars, apiVars, sigVars, pVars, eVars, activeResumes, resumptions,
                   lastFetch, lastTask, timerFired>>

\* One iteration of the range loop over the resumed runs.
L_ResumeEntry ==
    /\ lpc = "launch"
    /\ LET resumed == Head(pendingResumes)
           ls == LoadOrStore(activeResumes, resumed.RunID)
       IN IF ShouldResume(resumed)
          THEN /\ activeResumes' = ls.map
               /\ resumptions' =
                     IF ls.loaded THEN resumptions
                     ELSE Append(resumptions, [RunID |-> resumed.RunID,
                                               EntityID |-> resumed.EntityID])
          ELSE UNCHANGED <<activeResumes, resumptions>>
    /\ pendingResumes' = Tail(pendingResumes)
    /\ lpc' = AfterResumeEntry(Tail(pendingResumes))
    /\ UNCHANGED <<resumeErrLogged, execVars, jsonVars, apiVars, sigVars, pVars, eVars, recoverErr, lastFetch, lastTask,
                   timerFired, lret>>

\* DeferredDelete when the entry is deleted only after a successful resumption.
DeferredDelete_OnlyOnSuccess(m, runID, resumeErr) ==
    IF resumeErr = NoError THEN m \ {runID} ELSE m

\* defer activeResumes.Delete(runID): runs when the goroutine's function
\* returns, whatever resumeOrchestration returned.
DeferredDelete(m, runID, resumeErr) == m \ {runID}

\* A background resumption returns, with or without an error, and its
\* deferred Delete runs.
R_Finish ==
    /\ \E i \in DOMAIN resumptions, resumeErr \in {NoError, ErrResumeOrchestration} :
          /\ resumptions' = SubSeq(resumptions, 1, i - 1)
                               \o SubSeq(resumptions, i + 1, Len(resumptions))
          /\ activeResumes' = DeferredDelete(activeResumes, resumptions[i].RunID, resumeErr)
          /\ resumeErrLogged' = (resumeErrLogged \/ resumeErr # NoError)
    /\ UNCHANGED <<execVars, jsonVars, apiVars, sigVars, pVars, eVars, lpc, recoverErr, pendingResumes,
                   lastFetch, lastTask, timerFired, lret>>

\* AfterCheck when a cancelled loop waits for its resumptions before it
\* returns.
AfterCheck_JoinsResumes(isCancelled) ==
    IF isCancelled THEN (IF resumptions = <<>> THEN "returned" ELSE "check") ELSE "fetch"

\* AfterCheck when the loop does not look at the context before it fetches.
AfterCheck_IgnoresCancellation(isCancelled) == "fetch"

\* The select at the top of the poll loop: return when ctx is done, go on to
\* the fetch otherwise.
AfterCheck(isCancelled) == IF isCancelled THEN "returned" ELSE "fetch"

\* The cancellation check at the top of the poll loop.
L_Check ==
    /\ lpc = "check"
    /\ lpc' = AfterCheck(cancelled)
    /\ lret' = IF AfterCheck(cancelled) = "returned" THEN NoError ELSE lret
    /\ UNCHANGED <<resumeErrLogged, execVars, jsonVars, apiVars, sigVars, pVars, eVars, recoverErr, pendingResumes, activeResumes,
                   resumptions, lastFetch, lastTask, timerFired>>

\* client.FetchNextTask: an error, no task, or a task, which is handed to
\* executeEntity.
L_Fetch ==
    /\ lpc = "fetch"
    /\ \E outcome \in {"error", "no_task"} \cup {"task" : n \in fetchCount + 1..planned} :
          /\ lastFetch' = outcome
          /\ lpc' = AfterFetch(outcome)
          /\ IF outcome = "task"
             THEN /\ fetchCount' = fetchCount + 1
                  /\ epc' = "fetch"
                  /\ params' = fetchCount + 1
                  /\ lastTask' = NoTask
                  /\ UNCHANGED <<entityResp, startResp, backend, result, completeReq,
                                 calls, ret>>
             ELSE UNCHANGED <<fetchCount, eVars, lastTask>>
    /\ timerFired' = FALSE
    /\ UNCHANGED <<resumeErrLogged, execVars, jsonVars, runs, planned, lastStartReq, sigVars, pVars, recoverErr, pendingResumes, activeResumes,
                   resumptions, lret>>

\* The timer of the sleep in progress fires after one poll interval.
L_TimerFires ==
    /\ lpc = "sleep"
    /\ ~timerFired
    /\ timerFired' = TRUE
    /\ UNCHANGED <<resumeErrLogged, execVars, jsonVars, apiVars, sigVars, pVars, eVars, lpc, recoverErr, pendingResumes,
                   activeResumes, resumptions, lastFetch, lastTask, lret>>

\* sleepWithContext returns: true ends runLoop, false continues the loop.
L_SleepReturns ==
    /\ lpc = "sleep"
    /\ \E wasCancelled \in SleepWithContext(cancelled, timerFired) :
          IF wasCancelled
          THEN lpc' = "returned" /\ lret' = NoError
          ELSE lpc' = "check" /\ lret' = lret
    /\ UNCHANGED <<resumeErrLogged, execVars, jsonVars, apiVars, sigVars, pVars, eVars, recoverErr, pendingResumes, activeResumes,
                   resumptions, lastFetch, lastTask, timerFired>>

\* executeEntity has returned to the poll loop: log and flush.
L_TaskReturned ==
    /\ lpc = "exec"
    /\ ExecuteEntityReturned(epc)
    /\ lastTask' = ret
    /\ lpc' = AfterTask(ret.success, ret.err)
    /\ lret' = IF AfterTask(ret.success, ret.err) = "returned" THEN ret.err ELSE lret
    /\ ResetLifecycle
    /\ UNCHANGED <<resumeErrLogged, execVars, jsonVars, runs, planned, fetchCount, sigVars, pVars, recoverErr, pendingResumes, activeResumes,
                   resumptions, lastFetch, timerFired>>

\* SIGTERM or SIGINT arrives: the signal goroutine of runLoop calls cancel().
L_Cancel ==
    /\ ~cancelled
    /\ lpc # "returned"
    /\ cancelled' = TRUE
    /\ cancelAt' = IF lpc = "fetch" THEN "during_fetch" ELSE "during_loop"
    /\ UNCHANGED <<execVars, jsonVars, apiVars, pVars, eVars, loopVars>>

LoopIdle ==
    /\ lpc = "idle"
    /\ recoverErr = "<pending>"
    /\ pendingResumes = <<>>
    /\ activeResumes = {}
    /\ resumptions = <<>>
    /\ resumeErrLogged = FALSE
    /\ lastFetch = NoFetch
    /\ lastTask = NoTask
    /\ timerFired = FALSE
    /\ lret = "<running>"

(* ------------- buildEnvWithInputs (internal/executor/bash.go) ---------- *)

\* The units that execute backends at the same time: the lifecycle the poll
\* loop dispatched, and a lifecycle of a Process resumed in the background.
ExecUnits == {"main", "resumed"}

\* Input labels, as sequences of characters, and the values a resolved input
\* can have.
Labels == {<<"a", "-", "b">>, <<"a", "_", "b">>, <<"c">>}
JSONValues == {1, 2}

\* strings.ReplaceAll and strings.ToUpper on the characters of a label.
ReplaceAll(s, old, new) == [i \in DOMAIN s |-> IF s[i] = old THEN new ELSE s[i]]
UpperOf(ch) ==
    IF ch = "a" THEN "A" ELSE IF ch = "b" THEN "B" ELSE IF ch = "c" THEN "C" ELSE ch
ToUpper(s) == [i \in DOMAIN s |-> UpperOf(s[i])]

\* envKey := "INPUT_" + strings.ToUpper(strings.ReplaceAll(label, "-", "_"))
EnvKey(label) == <<"INPUT_">> \o ToUpper(ReplaceAll(label, "-", "_"))

\* What the command reads for a name when env holds the entries in this
\* order: exec.Cmd uses the last entry of a duplicated name.
Unset == "<unset>"
Getenv(env, key) ==
    LET at == {i \in DOMAIN env : env[i][1] = key}
    IN IF at = {} THEN Unset ELSE env[CHOOSE i \in at : \A j \in at : j <= i][2]

\* json.Marshal on the values.
Marshal(v) == IF v = 1 THEN "1" ELSE "2"

\* Largest number of labels in one inputs map.
MaxLabels == 2

\* The inputs maps: a value for each label of some set of labels.
LabelledInputs ==
    UNION {[D -> JSONValues] : D \in {L \in SUBSET Labels : Cardinality(L) <= MaxLabels}}
NoLabelledInputs == [l \in {} |-> 1]

FileAbsent == "<absent>"

\* The path of the companion file of a label: inputDir, the label, ".json".
FilePathOf(label) == <<"/tmp/.kindship-inputs", label, ".json">>

\* buildEnvWithInputs is entered: the range loop over the inputs begins.
BuildEnv_Begin(u) ==
    /\ xpc[u] = "idle"
    /\ xpc' = [xpc EXCEPT ![u] = "env"]
    /\ xpending' = [xpending EXCEPT ![u] = DOMAIN xinputs[u]]
    /\ UNCHANGED <<apiVars, sigVars, pVars, eVars, loopVars, jsonVars, writerVars, runVars, inputFiles,
                   xinputs, xenv, xinline>>

\* One iteration of the range loop, over the labels in any order: the value
\* is marshalled, INPUT_<LABEL>=<json> is appended to env, and the value is
\* written to the file of its label; INPUT_<LABEL>_FILE is exported when the
\* write succeeded.
BuildEnv_WriteInput(u) ==
    /\ xpc[u] = "env"
    /\ \E label \in xpending[u] :
          /\ xpending' = [xpending EXCEPT ![u] = @ \ {label}]
          /\ xinline' = [xinline EXCEPT
                            ![u] = Append(@, <<EnvKey(label), Marshal(xinputs[u][label])>>)]
          /\ \/ /\ inputFiles' = [inputFiles EXCEPT
                                    ![FilePathOf(label)] = Marshal(xinputs[u][label])]
                /\ xenv' = [xenv EXCEPT ![u] = @ \cup {label}]
             \/ UNCHANGED <<inputFiles, xenv>>
    /\ UNCHANGED <<apiVars, sigVars, pVars, eVars, loopVars, jsonVars, writerVars, runVars, xpc, xinputs>>

\* buildEnvWithInputs has returned and cmd.Run() starts the command.
Cmd_Start(u) ==
    /\ xpc[u] = "env"
    /\ xpending[u] = {}
    /\ xpc' = [xpc EXCEPT ![u] = "running"]
    /\ UNCHANGED <<apiVars, sigVars, pVars, eVars, loopVars, jsonVars, writerVars, runVars, inputFiles,
                   xinputs, xpending, xenv, xinline>>

\* The command exits and cmd.Run() returns.
Cmd_Exit(u) ==
    /\ xpc[u] = "running"
    /\ xpc' = [xpc EXCEPT ![u] = "done"]
    /\ UNCHANGED <<apiVars, sigVars, pVars, eVars, loopVars, jsonVars, writerVars, runVars, inputFiles,
                   xinputs, xpending, xenv, xinline>>

EnvIdle ==
    /\ inputFiles = [f \in {FilePathOf(l) : l \in Labels} |-> FileAbsent]
    /\ xpc = [u \in ExecUnits |-> "unused"]
    /\ xinputs = [u \in ExecUnits |-> NoLabelledInputs]
    /\ xpending = [u \in ExecUnits |-> {}]
    /\ xenv = [u \in ExecUnits |-> {}]
    /\ xinline = [u \in ExecUnits |-> <<>>]

(* ------------- limitedWriter (internal/executor/bash.go) --------------- *)

\* Largest cap of a writer.
MaxLimit == 3
\* Largest chunk handed to one Write call.
MaxChunk == 3
\* Largest total number of bytes written that is explored.
MaxWritten == 5

Bytes == {"a", "b"}
Chunks == UNION {[1..k -> Bytes] : k \in 0..MaxChunk}

\* Write when the chunk is not cut to the room that is left.
Write_NoTruncation(buf, limit, p) ==
    LET remaining == limit - Len(buf)
    IN IF remaining <= 0 THEN [buf |-> buf, n |-> Len(p)]
       ELSE [buf |-> buf \o p, n |-> Len(p)]

\* limitedWriter.Write: the buffer afterwards and the count returned.
Write(buf, limit, p) ==
    LET remaining == limit - Len(buf)
    IN IF remaining <= 0 THEN [buf |-> buf, n |-> Len(p)]
       ELSE LET q == IF Len(p) > remaining THEN SubSeq(p, 1, remaining) ELSE p
            IN [buf |-> buf \o q, n |-> Len(q)]

\* One Write call with some chunk.
W_Write ==
    /\ \E p \in Chunks :
          /\ Len(wwritten) + Len(p) <= MaxWritten
          /\ wbuf' = Write(wbuf, wlimit, p).buf
          /\ wret' = Write(wbuf, wlimit, p).n
          /\ wwritten' = wwritten \o p
    /\ UNCHANGED <<apiVars, sigVars, pVars, eVars, loopVars, jsonVars, envVars, runVars, wlimit>>

WriterIdle ==
    /\ wbuf = <<>>
    /\ wlimit = 0
    /\ wwritten = <<>>
    /\ wret = 0

(* ---- ExecuteBashWithContext / ExecutePythonWithContext, step by step ---- *)

\* The two functions that run entity.Code as a command.
CmdBackends == {"bash", "python"}

\* How the process of one invocation can be: not started, running, exited
\* with a status of its own, killed when the deadline of execCtx passed, or
\* never launched because cmd.Start() failed.
ProcNone == [how |-> "none", code |-> 0]
ProcRunning == [how |-> "running", code |-> 0]
ProcKilled == [how |-> "killed", code |-> -1]
ProcLaunchFailed == [how |-> "launch_failed", code |-> 0]
ProcExited(c) == [how |-> "exited", code |-> c]
OwnExitStatuses == {0} \cup ExitStatuses

\* The error cmd.Run() returns: an ExitError when the process did not exit
\* 0 (a killed process has exit code -1), the error of the copy loop when
\* the process exited 0 but a Write on cmd.Stdout came back short, the
\* launch error when the process never started, nil otherwise.
CmdRunError(status, short) ==
    IF status = ProcLaunchFailed THEN "other"
    ELSE IF status = ProcKilled THEN "ExitError"
    ELSE IF status.code # 0 THEN "ExitError"
    ELSE IF short THEN "other"
    ELSE "nil"

\* The argument of the functions when no command was run.
NoCmdRun == [err |-> "nil", deadline |-> FALSE, code |-> 0, stdout |-> <<>>]
NoExecutionResult == [Success |-> FALSE, Stdout |-> <<>>, ExitCode |-> 0, Error |-> "none"]

\* Lines 28-47: the check of entity.Code, then the command is built with a
\* capped writer as its Stdout and cmd.Run() starts it (or fails to).
X_Begin ==
    /\ bpc = "entry"
    /\ IF bcode = CodeNil \/ bcode = CodeEmpty
       THEN /\ bresult' = Execute(bname, bcode, NoCmdRun)
            /\ bpc' = "returned"
            /\ UNCHANGED <<spawned, procStatus>>
       ELSE \/ /\ spawned' = spawned + 1
               /\ procStatus' = ProcRunning
               /\ bpc' = "running"
               /\ bresult' = bresult
            \/ /\ procStatus' = ProcLaunchFailed
               /\ bpc' = "exited"
               /\ UNCHANGED <<spawned, bresult>>
    /\ UNCHANGED <<apiVars, sigVars, pVars, eVars, loopVars, jsonVars, envVars, writerVars,
                   bname, bcode, deadlineExceeded, shortWrite>>

\* The process prints a chunk and the copy loop hands it to the capped
\* writer; the loop stops at the first Write that returns a short count.
X_Output ==
    /\ bpc = "running"
    /\ ~shortWrite
    /\ \E p \in Chunks \ {<<>>} :
          /\ Len(wwritten) + Len(p) <= MaxWritten
          /\ wbuf' = Write(wbuf, wlimit, p).buf
          /\ wret' = Write(wbuf, wlimit, p).n
          /\ wwritten' = wwritten \o p
          /\ shortWrite' = (Write(wbuf, wlimit, p).n < Len(p))
    /\ UNCHANGED <<apiVars, sigVars, pVars, eVars, loopVars, jsonVars, envVars, wlimit,
                   bpc, bname, bcode, spawned, procStatus, deadlineExceeded, bresult>>

\* The process exits with a status of its own.
X_ProcExit ==
    /\ bpc = "running"
    /\ \E c \in OwnExitStatuses : procStatus' = ProcExited(c)
    /\ bpc' = "exited"
    /\ UNCHANGED <<apiVars, sigVars, pVars, eVars, loopVars, jsonVars, envVars, writerVars,
                   bname, bcode, spawned, deadlineExceeded, shortWrite, bresult>>

\* The deadline of execCtx passes: a process that is still running is
\* killed; one that has exited already is not touched.
X_Deadline ==
    /\ bpc \in {"running", "exited"}
    /\ ~deadlineExceeded
    /\ deadlineExceeded' = TRUE
    /\ IF bpc = "running"
       THEN procStatus' = ProcKilled /\ bpc' = "exited"
       ELSE UNCHANGED <<procStatus, bpc>>
    /\ UNCHANGED <<apiVars, sigVars, pVars, eVars, loopVars, jsonVars, envVars, writerVars,
                   bname, bcode, spawned, shortWrite, bresult>>

\* Lines 47-72: cmd.Run() returns and the result is built.
X_Return ==
    /\ bpc = "exited"
    /\ bresult' = Execute(bname, bcode,
                          [err |-> CmdRunError(procStatus, shortWrite),
                           deadline |-> deadlineExceeded,
                           code |-> procStatus.code,
                           stdout |-> wbuf])
    /\ bpc' = "returned"
    /\ UNCHANGED <<apiVars, sigVars, pVars, eVars, loopVars, jsonVars, envVars, writerVars,
                   bname, bcode, spawned, procStatus, deadlineExceeded, shortWrite>>

RunIdle ==
    /\ bpc = "unused"
    /\ bname = "none"
    /\ bcode = CodeNil
    /\ spawned = 0
    /\ procStatus = ProcNone
    /\ deadlineExceeded = FALSE
    /\ shortWrite = FALSE
    /\ bresult = NoExecutionResult

(* ------- ExtractJSONFromOutput on texts (internal/validator) ----------- *)

\* Longest body of a JSON string in the texts that are tried.
MaxStr == 2

\* A text is a sequence of characters. The characters a JSON string body is
\* made of here: a letter and the two braces.
StrChars == {"a", "{", "}"}
StrBodies == UNION {[1..k -> StrChars] : k \in 0..MaxStr}

\* JSON values: a string, the empty object, or an object with the one
\* member "a" whose value is a string, the empty object or such an object.
JSONString(body) == <<"string", body>>
EmptyObject == <<"object">>
ObjectWith(value) == <<"object", <<"a">>, value>>
FlatObjects == {EmptyObject} \cup {ObjectWith(JSONString(b)) : b \in StrBodies}
JSONObjects == FlatObjects \cup {ObjectWith(o) : o \in FlatObjects}
\* Go's nil map.
NilMap == <<"nil">>

\* The compact JSON text of a value.
RECURSIVE Render(_)
Render(v) ==
    IF v[1] = "string" THEN <<"\"">> \o v[2] \o <<"\"">>
    ELSE IF Len(v) = 1 THEN <<"{", "}">>
    ELSE <<"{", "\"">> \o v[2] \o <<"\"", ":">> \o Render(v[3]) \o <<"}">>

\* json.Unmarshal into a map: the object a text is the JSON text of, or a
\* parse error.
Unmarshal(text) ==
    LET hits == {o \in JSONObjects : Render(o) = text}
    IN IF hits # {} THEN [obj |-> CHOOSE o \in hits : TRUE, err |-> NoError]
       ELSE [obj |-> NilMap, err |-> "failed to parse JSON"]

WhiteSpace == {" ", "\n"}
\* The backquote character.
Backquote == "backquote"
FenceJSON == <<Backquote, Backquote, Backquote, "j", "s", "o", "n">>
Fence == <<Backquote, Backquote, Backquote>>

\* strings.TrimSpace.
TrimSpace(text) ==
    LET keep == {i \in DOMAIN text : text[i] \notin WhiteSpace}
    IN IF keep = {} THEN <<>>
       ELSE SubSeq(text, CHOOSE i \in keep : \A j \in keep : i <= j,
                         CHOOSE i \in keep : \A j \in keep : i >= j)

\* strings.Index: the offset (from 0) of the first occurrence, or -1.
Index(text, pat) ==
    LET at == {i \in 0..(Len(text) - Len(pat)) : SubSeq(text, i + 1, i + Len(pat)) = pat}
    IN IF at = {} THEN -1 ELSE CHOOSE i \in at : \A j \in at : i <= j

\* Go's text[a:b] and text[a:].
Slice(text, a, b) == SubSeq(text, a + 1, b)
SliceFrom(text, a) == SubSeq(text, a + 1, Len(text))

\* Lines 96-121: the region of the text in which the object is looked for.
FencedRegion(stdout0) ==
    LET stdout == TrimSpace(stdout0)
        jsonStart == Index(stdout, FenceJSON)
    IN IF jsonStart # -1
       THEN LET js == jsonStart + Len(FenceJSON)
                jsonEnd == Index(SliceFrom(stdout, js), Fence)
            IN IF jsonEnd # -1 THEN TrimSpace(Slice(stdout, js, js + jsonEnd))
               ELSE stdout
       ELSE LET codeStart == Index(stdout, Fence)
            IN IF codeStart # -1
               THEN LET cs0 == codeStart + Len(Fence)
                        newline == Index(SliceFrom(stdout, cs0), <<"\n">>)
                        cs == IF newline # -1 THEN cs0 + newline + 1 ELSE cs0
                        codeEnd == Index(SliceFrom(stdout, cs), Fence)
                    IN IF codeEnd # -1 THEN TrimSpace(Slice(stdout, cs, cs + codeEnd))
                       ELSE stdout
               ELSE stdout

\* Lines 130-142: the loop that looks for the closing brace, from offset i
\* with the depth counted so far; the offset after the brace, or -1.
RECURSIVE BraceEnd(_, _, _)
BraceEnd(stdout, i, braceCount) ==
    IF i >= Len(stdout) THEN -1
    ELSE IF stdout[i + 1] = "{" THEN BraceEnd(stdout, i + 1, braceCount + 1)
    ELSE IF stdout[i + 1] = "}"
         THEN IF braceCount - 1 = 0 THEN i + 1
              ELSE BraceEnd(stdout, i + 1, braceCount - 1)
    ELSE BraceEnd(stdout, i + 1, braceCount)

\* ExtractJSONFromOutput on a text: (map, error).
ExtractJSONFromText(stdout0) ==
    LET stdout == FencedRegion(stdout0)
        braceStart == Index(stdout, <<"{">>)
    IN IF braceStart = -1
       THEN [obj |-> NilMap, err |-> "no JSON object found in output"]
       ELSE LET braceEnd == BraceEnd(stdout, braceStart, 0)
            IN IF braceEnd = -1
               THEN [obj |-> NilMap, err |-> "no matching closing brace found"]
               ELSE Unmarshal(Slice(stdout, braceStart, braceEnd))

\* The texts handed to the function: the JSON text of an object, the same
\* inside a fence tagged json, and texts that are not made from an object.
CleanText(o) == Render(o)
FencedText(o) == FenceJSON \o <<"\n">> \o Render(o) \o <<"\n">> \o Fence
OtherTexts ==
    {<<>>, <<"a">>, <<"a", " ", "a">>, <<"}">>, <<"a", "}">>, <<"\n", "a", "\n">>,
     <<"{">>, <<"{", "\"", "a", "\"", ":">>, <<"a", " ", "{", "}", " ", "a">>,
     Fence \o <<"\n", "a", "\n">> \o Fence,
     Fence \o <<"s", "h", "\n">> \o Render(EmptyObject) \o <<"\n">> \o Fence,
     FenceJSON \o <<"\n", "a", "\n">> \o Fence,
     FenceJSON \o <<"\n">> \o Render(EmptyObject)}
ExtractInputs ==
    {[form |-> "clean", object |-> o, text |-> CleanText(o)] : o \in JSONObjects}
    \cup {[form |-> "fenced", object |-> o, text |-> FencedText(o)] : o \in JSONObjects}
    \cup {[form |-> "other", object |-> NilMap, text |-> t] : t \in OtherTexts}

NoExtractInput == [form |-> "none", object |-> NilMap, text |-> <<>>]
NoExtraction == [obj |-> NilMap, err |-> "<pending>"]

\* The call of the function.
J_Extract ==
    /\ jpc = "call"
    /\ jres' = ExtractJSONFromText(jin.text)
    /\ jpc' = "returned"
    /\ UNCHANGED <<apiVars, sigVars, pVars, eVars, loopVars, execVars, jin>>

JsonIdle ==
    /\ jin = NoExtractInput
    /\ jpc = "unused"
    /\ jres = NoExtraction

(* --------------------------- specification ---------------------------- *)

Init ==
    /\ runs = <<>>
    /\ planned \in 0..MaxTasks
    /\ fetchCount = 0
    /\ lastStartReq = NoStartReq
    /\ cancelled = FALSE
    /\ cancelAt = "none"
    /\ ppc = "start"
    /\ processRunID = 0
    /\ tasksExecuted = 0
    /\ lastError = NoError
    /\ interrupted = FALSE
    /\ exitReason = "none"
    /\ processCompleteReq = NoProcessCompleteReq
    /\ processCompleteCalls = 0
    /\ pret = "<running>"
    /\ childResults = <<>>
    /\ epc = "idle"
    /\ params = -1
    /\ entityResp = NoEntityResp
    /\ startResp = NoStartResp
    /\ backend = NoBackend
    /\ result = NoResult
    /\ completeReq = NoCompleteReq
    /\ calls = NoCalls
    /\ ret = NoRet
    /\ LoopIdle
    /\ EnvIdle
    /\ WriterIdle
    /\ RunIdle
    /\ JsonIdle

\* A Process whose scoped oracle has no task at all, or never runs dry.
OracleInit ==
    /\ runs = <<>>
    /\ planned \in {0, Endless}
    /\ fetchCount = 0
    /\ lastStartReq = NoStartReq
    /\ cancelled = FALSE
    /\ cancelAt = "none"
    /\ ppc = "start"
    /\ processRunID = 0
    /\ tasksExecuted = 0
    /\ lastError = NoError
    /\ interrupted = FALSE
    /\ exitReason = "none"
    /\ processCompleteReq = NoProcessCompleteReq
    /\ processCompleteCalls = 0
    /\ pret = "<running>"
    /\ childResults = <<>>
    /\ epc = "idle"
    /\ params = -1
    /\ entityResp = NoEntityResp
    /\ startResp = NoStartResp
    /\ backend = NoBackend
    /\ result = NoResult
    /\ completeReq = NoCompleteReq
    /\ calls = NoCalls
    /\ ret = NoRet
    /\ LoopIdle
    /\ EnvIdle
    /\ WriterIdle
    /\ RunIdle
    /\ JsonIdle

Next ==
    \/ P_Start
    \/ P_Check
    \/ P_Fetch
    \/ P_ChildReturned
    \/ P_Complete
    \/ EE_Fetch
    \/ EE_Start
    \/ EE_Dispatch
    \/ EE_Complete
    \/ Cancel

Spec == Init /\ [][Next]_vars

\* A step of the thread that runs the Process driver and the lifecycles it
\* calls; the delivery of a signal is not one of them.
DriverStep ==
    \/ P_Start
    \/ P_Check
    \/ P_Fetch
    \/ P_ChildReturned
    \/ P_Complete
    \/ EE_Fetch
    \/ EE_Start
    \/ EE_Dispatch
    \/ EE_Complete

\* The Process driver against an oracle that has no task or never runs dry;
\* every API call and every child lifecycle returns. Nothing is assumed of
\* the signal or of what the oracle answers.
OracleSpec == OracleInit /\ [][Next]_vars /\ WF_vars(DriverStep)

\* Neither the Process driver nor a lifecycle of the execution core is running.
CoreUnused ==
    /\ runs = <<>>
    /\ planned = 0
    /\ fetchCount = 0
    /\ lastStartReq = NoStartReq
    /\ cancelled = FALSE
    /\ cancelAt = "none"
    /\ ppc = "unused"
    /\ processRunID = 0
    /\ tasksExecuted = 0
    /\ lastError = NoError
    /\ interrupted = FALSE
    /\ exitReason = "none"
    /\ processCompleteReq = NoProcessCompleteReq
    /\ processCompleteCalls = 0
    /\ pret = "<running>"
    /\ childResults = <<>>
    /\ epc = "idle"
    /\ params = -1
    /\ entityResp = NoEntityResp
    /\ startResp = NoStartResp
    /\ backend = NoBackend
    /\ result = NoResult
    /\ completeReq = NoCompleteReq
    /\ calls = NoCalls
    /\ ret = NoRet

\* runLoop after the agent identifier and the service credential were
\* validated; the Process driver of cmd/run.go is not running.
LoopInit ==
    /\ runs = <<>>
    /\ planned = MaxQueue
    /\ fetchCount = 0
    /\ lastStartReq = NoStartReq
    /\ cancelled = FALSE
    /\ cancelAt = "none"
    /\ ppc = "unused"
    /\ processRunID = 0
    /\ tasksExecuted = 0
    /\ lastError = NoError
    /\ interrupted = FALSE
    /\ exitReason = "none"
    /\ processCompleteReq = NoProcessCompleteReq
    /\ processCompleteCalls = 0
    /\ pret = "<running>"
    /\ childResults = <<>>
    /\ epc = "idle"
    /\ params = -1
    /\ entityResp = NoEntityResp
    /\ startResp = NoStartResp
    /\ backend = NoBackend
    /\ result = NoResult
    /\ completeReq = NoCompleteReq
    /\ calls = NoCalls
    /\ ret = NoRet
    /\ lpc = "recover"
    /\ recoverErr = "<pending>"
    /\ pendingResumes = <<>>
    /\ activeResumes = {}
    /\ resumptions = <<>>
    /\ resumeErrLogged = FALSE
    /\ lastFetch = NoFetch
    /\ lastTask = NoTask
    /\ timerFired = FALSE
    /\ lret = "<running>"
    /\ EnvIdle
    /\ WriterIdle
    /\ RunIdle
    /\ JsonIdle

LoopNext ==
    \/ L_Recover
    \/ L_ResumeEntry
    \/ R_Finish
    \/ L_Check
    \/ L_Fetch
    \/ L_TimerFires
    \/ L_SleepReturns
    \/ L_TaskReturned
    \/ EE_Fetch
    \/ EE_Start
    \/ EE_Dispatch
    \/ EE_Complete
    \/ L_Cancel

LoopSpec == LoopInit /\ [][LoopNext]_vars

\* A step of the main thread: the startup thread and poll loop, and the
\* lifecycle it calls. The thread is sequential, so at most one of these is
\* enabled at a time. The firing of the poll-interval timer is not one of them.
MainThreadStep ==
    \/ L_Recover
    \/ L_ResumeEntry
    \/ L_Check
    \/ L_Fetch
    \/ L_SleepReturns
    \/ L_TaskReturned
    \/ EE_Fetch
    \/ EE_Start
    \/ EE_Dispatch
    \/ EE_Complete

\* The main thread takes its next step once it can (every API call and
\* backend dispatch returns). Nothing is assumed of the signal, of the
\* background resumptions, or of the poll-interval timer.
LoopLiveSpec == LoopSpec /\ WF_vars(MainThreadStep)

\* Two executions with any inputs maps, each building its environment and
\* running its command, interleaved in any way.
EnvInit ==
    /\ CoreUnused
    /\ LoopIdle
    /\ WriterIdle
    /\ RunIdle
    /\ JsonIdle
    /\ inputFiles = [f \in {FilePathOf(l) : l \in Labels} |-> FileAbsent]
    /\ xpc = [u \in ExecUnits |-> "idle"]
    /\ xinputs \in [ExecUnits -> LabelledInputs]
    /\ xpending = [u \in ExecUnits |-> {}]
    /\ xenv = [u \in ExecUnits |-> {}]
    /\ xinline = [u \in ExecUnits |-> <<>>]

EnvNext ==
    \E u \in ExecUnits :
       \/ BuildEnv_Begin(u)
       \/ BuildEnv_WriteInput(u)
       \/ Cmd_Start(u)
       \/ Cmd_Exit(u)

EnvSpec == EnvInit /\ [][EnvNext]_vars

\* A writer with any cap and an empty buffer, as ExecuteBashWithContext
\* creates it.
WriterInit ==
    /\ CoreUnused
    /\ LoopIdle
    /\ EnvIdle
    /\ RunIdle
    /\ JsonIdle
    /\ wbuf = <<>>
    /\ wlimit \in 0..MaxLimit
    /\ wwritten = <<>>
    /\ wret = 0

WriterNext == W_Write

WriterSpec == WriterInit /\ [][WriterNext]_vars

\* One invocation of the shell or the script backend with any code payload,
\* its Stdout capped at a scaled-down maxOutputBytes.
ExecInit ==
    /\ CoreUnused
    /\ LoopIdle
    /\ EnvIdle
    /\ wbuf = <<>>
    /\ wlimit \in 1..MaxLimit
    /\ wwritten = <<>>
    /\ wret = 0
    /\ bpc = "entry"
    /\ bname \in CmdBackends
    /\ bcode \in Codes
    /\ spawned = 0
    /\ procStatus = ProcNone
    /\ deadlineExceeded = FALSE
    /\ shortWrite = FALSE
    /\ bresult = NoExecutionResult
    /\ JsonIdle

ExecNext ==
    \/ X_Begin
    \/ X_Output
    \/ X_ProcExit
    \/ X_Deadline
    \/ X_Return

ExecSpec == ExecInit /\ [][ExecNext]_vars

\* One call of ExtractJSONFromOutput on any of the texts.
ExtractInit ==
    /\ CoreUnused
    /\ LoopIdle
    /\ EnvIdle
    /\ WriterIdle
    /\ RunIdle
    /\ jin \in ExtractInputs
    /\ jpc = "call"
    /\ jres = NoExtraction

ExtractNext == J_Extract

ExtractSpec == ExtractInit /\ [][ExtractNext]_vars

(* ------------------- properties of executeEntity ---------------------- *)

\* The run this lifecycle invocation created, once start-execution succeeded.
RunCreated == startResp # NoStartResp
CurrentRun ==
    IF RunCreated THEN runs[startResp.ExecutionID]
    ELSE [EntityID |-> -1, Status |-> "<no run>", completes |-> 0]
NoRunOfEntity == \A i \in DOMAIN runs : runs[i].EntityID # params

FetchFailed == epc = "returned" /\ entityResp = NoEntityResp
DependenciesUnmet == entityResp # NoEntityResp /\ ~entityResp.AllMet
InputsViolateSchema ==
    /\ entityResp # NoEntityResp
    /\ entityResp.AllMet
    /\ entityResp.InputSchema # NoSchema
    /\ entityResp.Inputs # InputsConforming
PreconditionsPass ==
    /\ entityResp # NoEntityResp
    /\ entityResp.AllMet
    /\ entityResp.InputSchema # NoSchema => entityResp.Inputs = InputsConforming

\* C1: start-execution is called only after the fetch succeeded, all
\* dependencies are met and the fetched inputs satisfy the input schema (when
\* there is one); in each of the three abort cases (fetch error, unmet
\* dependencies, input schema violation) executeEntity has returned (false, err)
\* with err not the ask-user skip, having created no run, dispatched no
\* backend and never called complete-execution.
C1_NoRunBeforePreconditions ==
    /\ calls.start > 0 => calls.fetch = 1 /\ PreconditionsPass
    /\ (FetchFailed \/ DependenciesUnmet \/ InputsViolateSchema) =>
          /\ epc = "returned"
          /\ calls.start = 0 /\ calls.dispatch = 0 /\ calls.complete = 0
          /\ backend = NoBackend
          /\ ~RunCreated /\ NoRunOfEntity
          /\ ~ret.success
          /\ ret.err # NoError /\ ~IsAskUserSkipped(ret.err)
          /\ ret.err = (IF FetchFailed THEN ErrFetchEntity
                        ELSE IF DependenciesUnmet THEN ErrDependenciesNotMet
                        ELSE ErrInputValidation)

\* Three children of one Process aborted in the three ways, and the only run
\* the API holds is the run of the Process itself.
C1_Witness ==
    /\ ppc = "check"
    /\ Len(childResults) = 3
    /\ \E i, j, k \in 1..3 :
          /\ childResults[i].err = ErrFetchEntity
          /\ childResults[j].err = ErrDependenciesNotMet
          /\ childResults[k].err = ErrInputValidation
    /\ Len(runs) = 1

\* C2: whenever executeEntity has built or reported a completion, its status
\* is Success exactly when the backend result has success=true and Failed
\* otherwise, whatever extraction and output-schema validation gave; an
\* accepted completion records that status on the run and the returned flag
\* is the backend's.
C2_StatusFollowsBackend ==
    epc \in {"complete", "returned"} /\ calls.dispatch = 1 =>
        /\ (result.Success => completeReq.Status = ExecutionAttemptStatusSuccess)
        /\ (~result.Success => completeReq.Status = ExecutionAttemptStatusFailed)
        /\ (epc = "returned" /\ ret.err = NoError =>
               /\ ret.success = result.Success
               /\ CurrentRun.Status = (IF result.Success THEN ExecutionAttemptStatusSuccess
                                       ELSE ExecutionAttemptStatusFailed))

\* A successful backend whose output violates the output schema, reported
\* and returned as a success.
C2_Witness ==
    /\ epc = "returned"
    /\ result.Success
    /\ entityResp.OutputSchema # NoSchema
    /\ Len(completeReq.ValidationRecords) = 2
    /\ completeReq.ValidationRecords[2].Outcome = ValidationOutcomeFail
    /\ CurrentRun.Status = ExecutionAttemptStatusSuccess
    /\ ret = [success |-> TRUE, err |-> NoError]

AskUserReturned ==
    /\ epc = "returned"
    /\ PreconditionsPass
    /\ entityResp.ExecutionMode = ExecutionModeAskUser

\* C3 as stated: for an ask-user entity whose preconditions pass,
\* executeEntity calls start-execution once, dispatches nothing, never calls
\* complete-execution and returns (false, ErrAskUserSkipped).
C3_Original ==
    AskUserReturned =>
        /\ calls.start = 1 /\ calls.dispatch = 0 /\ calls.complete = 0
        /\ ret = [success |-> FALSE, err |-> ErrAskUserSkipped]

\* C3 (amended): for an ask-user entity whose preconditions pass,
\* executeEntity calls start-execution once, dispatches nothing and never
\* calls complete-execution; if start-execution succeeded the run stays
\* Running and the return is (false, ErrAskUserSkipped); if it failed no run
\* exists and the return is (false, start-execution error).
C3_AskUserSkips ==
    AskUserReturned =>
        /\ calls.start = 1 /\ calls.dispatch = 0 /\ calls.complete = 0
        /\ backend = NoBackend
        /\ ~ret.success
        /\ IF RunCreated
           THEN /\ ret.err = ErrAskUserSkipped
                /\ CurrentRun.Status = ExecutionAttemptStatusRunning
                /\ CurrentRun.completes = 0
           ELSE /\ ret.err = ErrStartExecution
                /\ NoRunOfEntity

C3_Witness ==
    /\ AskUserReturned
    /\ RunCreated
    /\ CurrentRun.Status = ExecutionAttemptStatusRunning
    /\ ret = [success |-> FALSE, err |-> ErrAskUserSkipped]

\* C4 as stated: every run executeEntity created for an entity whose mode is
\* not ask-user has had complete-execution invoked exactly once when
\* executeEntity returns, whatever the mode (also an unrecognised one), and
\* no run is ever completed twice.
C4_Original ==
    /\ \A i \in DOMAIN runs : runs[i].completes <= 1
    /\ (epc = "returned" /\ RunCreated /\ entityResp.ExecutionMode # ExecutionModeAskUser) =>
          /\ calls.complete = 1
          /\ CurrentRun.completes = 1

BackendFailed == calls.dispatch = 1 /\ ~result.Success

\* C5 as stated: after a backend failure the run exists, is completed with
\* status Failed, and executeEntity returns (false, nil).
C5_Original ==
    epc = "returned" /\ BackendFailed =>
        /\ RunCreated
        /\ CurrentRun.Status = ExecutionAttemptStatusFailed
        /\ ret = [success |-> FALSE, err |-> NoError]

\* C5 (amended): after a backend failure (nonzero exit, timeout, launch
\* failure, missing code) the run exists and complete-execution was called
\* once for it with status Failed; if that call succeeded the run is Failed
\* and executeEntity returns (false, nil); if that call failed the run stays
\* Running and executeEntity returns (false, completion error). The backend
\* failure itself is never the returned error.
C5_BackendFailureCompletes ==
    epc = "returned" /\ BackendFailed =>
        /\ RunCreated
        /\ calls.complete = 1 /\ CurrentRun.completes = 1
        /\ completeReq.Status = ExecutionAttemptStatusFailed
        /\ ~ret.success
        /\ \/ /\ CurrentRun.Status = ExecutionAttemptStatusFailed
              /\ ret.err = NoError
           \/ /\ CurrentRun.Status = ExecutionAttemptStatusRunning
              /\ ret.err = ErrCompleteExecution

\* A command that ran into the timeout: its run is Failed and executeEntity
\* has returned (false, nil).
C5_Witness ==
    /\ epc = "returned"
    /\ BackendFailed
    /\ result.ExitCode = TimeoutExitCode
    /\ result.Error = "execution timed out"
    /\ CurrentRun.Status = ExecutionAttemptStatusFailed
    /\ ret = [success |-> FALSE, err |-> NoError]

\* The complete-execution call of this lifecycle was made and refused.
CompletionRefused ==
    calls.complete = 1 /\ CurrentRun.Status = ExecutionAttemptStatusRunning

\* C6: executeEntity returns (true, nil) only if the backend succeeded and
\* the run was completed with Success; (false, nil) only if the backend
\* failed and the run was completed with Failed; a non-nil error always
\* comes with success=false; and when complete-execution fails the return is
\* (false, err), also after a backend success, with the run left Running.
C6_ReturnContract ==
    epc = "returned" =>
        /\ (ret.success /\ ret.err = NoError =>
               /\ calls.dispatch = 1 /\ result.Success
               /\ calls.complete = 1
               /\ CurrentRun.Status = ExecutionAttemptStatusSuccess)
        /\ (~ret.success /\ ret.err = NoError =>
               /\ calls.dispatch = 1 /\ ~result.Success
               /\ calls.complete = 1
               /\ CurrentRun.Status = ExecutionAttemptStatusFailed)
        /\ (ret.err # NoError => ~ret.success)
        /\ (calls.complete = 1 /\ CompletionRefused =>
               ret = [success |-> FALSE, err |-> ErrCompleteExecution])

\* The backend succeeded, complete-execution failed: (false, err), run Running.
C6_Witness ==
    /\ epc = "returned"
    /\ result.Success
    /\ CompletionRefused
    /\ ret = [success |-> FALSE, err |-> ErrCompleteExecution]

(* ----------------- properties of runProcessExecution ------------------ *)

ExecutionFailure == [success |-> FALSE, err |-> NoError]
ChildFailedInBackend == \E i \in DOMAIN childResults : childResults[i] = ExecutionFailure
ChildErrorRecorded ==
    \E i \in DOMAIN childResults : childResults[i].err \notin {NoError, ErrAskUserSkipped}
ProcessRun == runs[processRunID]

\* C7: whatever a child lifecycle returned, the driver goes back to the
\* cancellation check and from there (unless cancelled) to the next scoped
\* fetch; the loop is left only from the cancellation check with cancellation
\* observed, or from a scoped fetch that returned an error or no task. So
\* when the oracle is exhausted every child of the Process was dispatched.
C7_FailureDoesNotStopLoop ==
    /\ [](exitReason \in {"none", "cancelled", "fetch_error", "exhausted"})
    /\ [](exitReason = "exhausted" => Len(childResults) = planned)
    /\ [][/\ (ppc = "exec" /\ ppc' # "exec") => ppc' = "check"
          /\ (ppc = "check" /\ ppc' # "check" /\ ~cancelled) => ppc' = "fetch"
          /\ (ppc # "complete" /\ ppc' = "complete") =>
                \/ ppc = "check" /\ cancelled /\ exitReason' = "cancelled"
                \/ ppc = "fetch" /\ exitReason' \in {"fetch_error", "exhausted"}]_vars

\* Three children, the second failed in its backend, all three dispatched.
C7_Witness ==
    /\ exitReason = "exhausted"
    /\ Len(childResults) = 3
    /\ childResults[1] = [success |-> TRUE, err |-> NoError]
    /\ childResults[2] = ExecutionFailure
    /\ childResults[3] = [success |-> TRUE, err |-> NoError]

\* C8 as stated: when a child ended in an execution failure and no
\* cancellation occurred, the Process run is completed with status Failed and
\* a failure reason.
C8_Original ==
    (ppc = "done" /\ processCompleteCalls = 1 /\ ~cancelled /\ ChildFailedInBackend) =>
        /\ processCompleteReq.Status = ExecutionAttemptStatusFailed
        /\ processCompleteReq.FailureReason # NoError

\* C9: every exit from the driver loop leads to exactly one complete-execution
\* call for the Process run; its status is Abandoned if cancellation was
\* observed (also after recorded errors), else Failed if a fetch error or a
\* child lifecycle error was recorded, else Success; the metrics carry
\* tasks_executed and interrupted, and interrupted is true exactly when the
\* status is Abandoned.
C9_ProcessCompletion ==
    /\ processCompleteCalls <= 1
    /\ exitReason # "none" => ppc \in {"complete", "done"}
    /\ ppc = "complete" => processCompleteCalls = 0 /\ exitReason # "none"
    /\ (ppc = "done" /\ processRunID # 0) =>
          /\ exitReason # "none"
          /\ processCompleteCalls = 1
          /\ ProcessRun.completes = 1
          /\ processCompleteReq.Status =
                (IF exitReason = "cancelled" THEN ExecutionAttemptStatusAbandoned
                 ELSE IF exitReason = "fetch_error" \/ ChildErrorRecorded
                 THEN ExecutionAttemptStatusFailed
                 ELSE ExecutionAttemptStatusSuccess)
          /\ processCompleteReq.tasks_executed = tasksExecuted
          /\ processCompleteReq.interrupted =
                (processCompleteReq.Status = ExecutionAttemptStatusAbandoned)
          /\ ProcessRun.Status \in {processCompleteReq.Status, ExecutionAttemptStatusRunning}

\* Cancellation observed after a child lifecycle error had been recorded: the
\* Process run is Abandoned.
C9_Witness ==
    /\ ppc = "done"
    /\ exitReason = "cancelled"
    /\ ChildErrorRecorded
    /\ ProcessRun.Status = ExecutionAttemptStatusAbandoned
    /\ processCompleteReq.interrupted

\* C10 as stated: when cancellation was delivered after the Process run was
\* created and before it was completed, the Process run is completed with
\* status Abandoned.
C10_Original ==
    (/\ ppc = "done"
     /\ processRunID # 0
     /\ cancelAt = "during_run"
     /\ ProcessRun.Status # ExecutionAttemptStatusRunning) =>
        ProcessRun.Status = ExecutionAttemptStatusAbandoned

(* ----------------------- properties of runLoop ------------------------ *)

RunningResumptions(r) == {i \in DOMAIN resumptions : resumptions[i].RunID = r}
RecoveryDone == lpc \notin {"recover", "launch"}
FirstFetchIssued == lastFetch # NoFetch
InfrastructureErrors == {ErrFetchEntity, ErrStartExecution, ErrCompleteExecution}

\* C11: at every moment at most one background resumption is running per run
\* identifier, and a running resumption's identifier is in the active-resumes
\* set; the startup thread launches a resumption for run R only in a step in
\* which R was absent from the set and is inserted, so a run that is being
\* resumed is never launched again, however the startup loop and the
\* finishing resumptions interleave.
C11_OneActiveResumptionPerRun ==
    /\ [](\A r \in RunIDs :
            /\ Cardinality(RunningResumptions(r)) <= 1
            /\ RunningResumptions(r) # {} => r \in activeResumes)
    /\ [][Len(resumptions') > Len(resumptions) =>
            LET r == resumptions'[Len(resumptions')].RunID
            IN /\ r \notin activeResumes
               /\ r \in activeResumes'
               /\ RunningResumptions(r) = {}]_vars

\* The response listed the same run twice: the resumption launched for the
\* first entry is still running when the startup loop comes to the second.
C11_Witness ==
    /\ lpc = "launch"
    /\ ShouldResume(Head(pendingResumes))
    /\ Head(pendingResumes).RunID \in activeResumes
    /\ RunningResumptions(Head(pendingResumes).RunID) # {}

\* C12: after recovery the poll loop issues its first fetch-next-task (unless
\* cancellation ends the loop first) in every behaviour in which the main
\* thread's own calls return, whether or not a launched resumption ever
\* finishes.
C12_PollingDoesNotWait == <>(FirstFetchIssued \/ lpc = "returned")

\* A resumption is still running while the lifecycle of a task the poll loop
\* fetched is dispatching its backend.
C12_Witness ==
    /\ lpc = "exec"
    /\ epc = "dispatch"
    /\ \E r \in RunIDs : RunningResumptions(r) # {}

\* C13 as stated: for every entry of the resumed list of a successful
\* recover-runs response, whatever execution-mode string it carries, the
\* startup loop launches one background resumption scoped to the entry's
\* entity, unless the entry's run identifier is already active, in which
\* case it launches nothing.
C13_Original ==
    [][(lpc = "launch" /\ pendingResumes' = Tail(pendingResumes)) =>
          LET resumed == Head(pendingResumes)
          IN resumptions' =
                IF resumed.RunID \in activeResumes THEN resumptions
                ELSE Append(resumptions, [RunID |-> resumed.RunID,
                                         EntityID |-> resumed.EntityID])]_vars

\* C14: when recover-runs failed, no resumption is ever launched, runLoop
\* does not return because of it (it returns only nil, and only once
\* cancelled), the startup thread goes straight to the poll loop, and a
\* fetch-next-task call follows unless cancellation is delivered.
C14_RecoveryFailureNonFatal ==
    /\ [](recoverErr = ErrRecoverRuns =>
            /\ resumptions = <<>>
            /\ activeResumes = {}
            /\ lpc # "launch"
            /\ lret \in {"<running>", NoError}
            /\ lpc = "returned" => cancelled)
    /\ [][lpc = "recover" /\ recoverErr' = ErrRecoverRuns => lpc' = "check"]_vars
    /\ [](recoverErr = ErrRecoverRuns => <>(FirstFetchIssued \/ cancelled))

\* Recovery failed, and the poll loop has fetched without any cancellation.
C14_Witness ==
    /\ recoverErr = ErrRecoverRuns
    /\ FirstFetchIssued
    /\ ~cancelled
    /\ resumptions = <<>>

\* C15: runLoop returns only after cancellation, with a nil error, and only
\* from the cancellation check at the top of the loop or from a sleep: no
\* outcome of fetch-next-task or of executeEntity makes the loop return.
C15_ReturnsOnlyOnCancellation ==
    /\ [](lpc = "returned" => cancelled /\ lret = NoError)
    /\ [](lpc # "returned" => lret = "<running>")
    /\ [][lpc # "returned" /\ lpc' = "returned" =>
            cancelled /\ lpc \in {"check", "sleep"}]_vars

\* The loop has seen a lifecycle that ended in an infrastructure error and
\* then a failed fetch, slept, and is at the top of the loop again.
C15_Witness ==
    /\ lpc = "check"
    /\ ~cancelled
    /\ lastTask.err = ErrCompleteExecution
    /\ lastFetch = "error"

\* C16: when executeEntity returns, whatever it returns, the poll loop goes
\* to the cancellation check and from there to the next fetch-next-task (or
\* returns when cancelled) with no sleep in between; it enters a sleep only
\* from a fetch-next-task call, and exactly when that call returned an error
\* or no task.
C16_SleepOnlyWhenIdle ==
    /\ [](lpc = "sleep" => lastFetch \in {"error", "no_task"})
    /\ [][/\ (lpc = "exec" /\ lpc' # "exec") => lpc' = "check"
          /\ (lpc = "check" /\ lpc' # "check") =>
                \/ ~cancelled /\ lpc' = "fetch"
                \/ cancelled /\ lpc' = "returned"
          /\ (lpc # "sleep" /\ lpc' = "sleep") => lpc = "fetch"
          /\ (lpc = "fetch" /\ lpc' # "fetch") =>
                /\ lpc' \in {"sleep", "exec"}
                /\ lpc' = "sleep" <=> lastFetch' \in {"error", "no_task"}]_vars

\* A task was dispatched and failed in its backend, and the loop is already
\* in its next fetch-next-task call without having slept.
C16_Witness ==
    /\ lpc = "fetch"
    /\ lastFetch = "task"
    /\ lastTask = [success |-> FALSE, err |-> NoError]

\* C17 as stated: whenever the poll loop is about to call fetch-next-task,
\* every infrastructure error since its previous call has been followed by a
\* backoff sleep: it never goes from a lifecycle that returned an
\* infrastructure error to the next fetch without sleeping.
C17_Original ==
    (lpc = "fetch" /\ lastFetch = "task") => lastTask.err \notin InfrastructureErrors

\* C18: once cancellation is delivered, runLoop eventually returns, and it
\* returns nil, in every behaviour in which the main thread's calls return,
\* even when the poll-interval timer of a sleep never fires.
C18_CancellationEndsLoop ==
    /\ cancelled ~> lpc = "returned"
    /\ [](lpc = "returned" => lret = NoError)

\* Cancellation was delivered during the sleep after an empty fetch, and
\* runLoop has returned nil from that sleep before its timer fired.
C18_Witness ==
    /\ lpc = "returned"
    /\ cancelled
    /\ lret = NoError
    /\ lastFetch = "no_task"
    /\ ~timerFired

(* -------------------- properties of the executor ---------------------- *)

Min(a, b) == IF a < b THEN a ELSE b

\* C19 as stated: while the command of an execution is running, the
\* companion file of every label it was given a file variable for holds that
\* execution's own JSON value, whatever another execution does at the same
\* time.
C19_Original ==
    \A u \in ExecUnits :
       xpc[u] = "running" =>
          \A l \in xenv[u] : inputFiles[FilePathOf(l)] = Marshal(xinputs[u][l])

\* C20: after any sequence of Write calls the buffer is never longer than
\* the cap and equals the first min(cap, total) bytes of the concatenation
\* of all chunks written; a Write never alters or shortens what the buffer
\* held.
C20_CappedPrefix ==
    /\ [](/\ Len(wbuf) <= wlimit
          /\ wbuf = SubSeq(wwritten, 1, Min(wlimit, Len(wwritten))))
    /\ [][/\ Len(wbuf') >= Len(wbuf)
          /\ SubSeq(wbuf', 1, Len(wbuf)) = wbuf]_vars

\* More was written than the cap allows, the last chunk straddled the cap,
\* and the buffer holds exactly the first cap bytes.
C20_Witness ==
    /\ wlimit = 2
    /\ wwritten = <<"a", "b", "b", "a">>
    /\ wbuf = <<"a", "b">>
    /\ wret = 1

\* C21 as stated: every Write call returns the length of the chunk it was
\* handed, the chunk that crosses the cap included.
C21_Original ==
    [][wret' = Len(wwritten') - Len(wwritten)]_vars

(* ---------------- properties of one backend invocation ----------------- *)

\* The process ran past the deadline of execCtx and was killed for it.
RanPastTimeout == procStatus = ProcKilled

\* C22: when the command of a shell or script execution runs past the
\* timeout, the result has success=false and exit code 124 and its stdout is
\* what the capped writer had captured, however much the command had printed.
C22_TimeoutResult ==
    (bpc = "returned" /\ RanPastTimeout) =>
        /\ ~bresult.Success
        /\ bresult.ExitCode = TimeoutExitCode
        /\ bresult.Stdout = wbuf

\* A script execution was killed at the deadline after it had printed more
\* than the cap; the result carries the capped output.
C22_Witness ==
    /\ bpc = "returned"
    /\ RanPastTimeout
    /\ bname = "python"
    /\ Len(wwritten) > wlimit
    /\ Len(bresult.Stdout) = wlimit
    /\ bresult.ExitCode = TimeoutExitCode

(* ------------- further properties of executeEntity -------------------- *)

\* The fetched entity is in shell or script mode and has no code to run.
MissingCode ==
    /\ entityResp.ExecutionMode \in CodeModes
    /\ entityResp.Code \in {CodeNil, CodeEmpty}

NoCodeErrors ==
    {"no code provided for BASH execution", "no code provided for PYTHON execution"}

\* What the backend returns for missing code, whatever a process would do.
NoCodeResult(res) ==
    /\ ~res.Success
    /\ res.ExitCode = 1
    /\ res.Error \in NoCodeErrors
    /\ res.Stdout = ""

\* One invocation of a backend with missing code starts no process.
NoCodeSpawnsNothing ==
    (bpc = "returned" /\ bcode \in {CodeNil, CodeEmpty}) =>
        spawned = 0 /\ procStatus = ProcNone /\ wwritten = <<>>

\* C23 as stated: with missing code the lifecycle completes the run with
\* status Failed and returns (false, nil).
C23_Original ==
    (epc = "returned" /\ MissingCode /\ calls.dispatch = 1) =>
        /\ NoCodeResult(result)
        /\ CurrentRun.Status = ExecutionAttemptStatusFailed
        /\ ret = [success |-> FALSE, err |-> NoError]

\* C23 (amended): for a shell or script entity whose code is absent or
\* empty, the dispatched backend returns success=false, exit code 1 and a
\* "no code provided" error with nothing captured, and that result does not
\* depend on any process; the run was created before, complete-execution is
\* called once for it with status Failed; if that call succeeds the run is
\* Failed and executeEntity returns (false, nil), and if it fails the run
\* stays Running and executeEntity returns (false, completion error).
C23_MissingCodeFails ==
    (MissingCode /\ calls.dispatch = 1) =>
          /\ NoCodeResult(result)
          /\ \A run \in CmdRunOutcomes :
                Execute(backend.name, entityResp.Code, run) = result
          /\ RunCreated
          /\ completeReq.Status = ExecutionAttemptStatusFailed
          /\ epc = "returned" =>
                /\ calls.complete = 1 /\ CurrentRun.completes = 1
                /\ \/ /\ CurrentRun.Status = ExecutionAttemptStatusFailed
                      /\ ret = [success |-> FALSE, err |-> NoError]
                   \/ /\ CurrentRun.Status = ExecutionAttemptStatusRunning
                      /\ ret = [success |-> FALSE, err |-> ErrCompleteExecution]

\* A script entity with the empty string as code: the run is Failed and
\* executeEntity has returned (false, nil).
C23_Witness ==
    /\ epc = "returned"
    /\ entityResp.ExecutionMode = ExecutionModePython
    /\ entityResp.Code = CodeEmpty
    /\ calls.dispatch = 1
    /\ result.Error = "no code provided for PYTHON execution"
    /\ CurrentRun.Status = ExecutionAttemptStatusFailed
    /\ ret = [success |-> FALSE, err |-> NoError]

(* ------------------ properties of output extraction ------------------- *)

\* The text handed in has no opening brace.
NoOpeningBrace == \A i \in DOMAIN jin.text : jin.text[i] # "{"

\* On a failure the map returned is nil.
ExtractFailureReturnsNil ==
    (jpc = "returned" /\ jres.err # NoError) => jres.obj = NilMap

\* A text without an opening brace fails.
ExtractNoBraceFails ==
    (jpc = "returned" /\ NoOpeningBrace) => jres.err # NoError

\* C24 as stated: from the JSON text of an object, bare or inside a fence
\* tagged json, the function returns that object; from a text without an
\* opening brace it fails; on every failure the map returned is nil.
C24_Original ==
    jpc = "returned" =>
        /\ jin.form \in {"clean", "fenced"} =>
              jres = [obj |-> jin.object, err |-> NoError]
        /\ NoOpeningBrace => jres.err # NoError
        /\ jres.err # NoError => jres.obj = NilMap

(* ------------------- runExecute (cmd/run.go, main.go) ------------------ *)

\* main: the process exits 1 when the command returned an error, else 0.
MainExitStatus(err) == IF err = NoError THEN 0 ELSE 1

\* runExecute for a Process entity: the error of runProcessExecution is the
\* error of the command.
ProcessPathExitStatus(perr) == MainExitStatus(perr)

\* runExecute for any other entity, after executeEntity returned
\* (success, err): the ask-user skip is not an error, another error is the
\* error of the command, and a failed execution exits 1 at once.
SinglePathExitStatus(success, err) ==
    IF err # NoError
    THEN IF IsAskUserSkipped(err) THEN MainExitStatus(NoError) ELSE MainExitStatus(err)
    ELSE IF ~success THEN 1
    ELSE MainExitStatus(NoError)

\* The single-lifecycle path: nonzero on a backend failure or an
\* infrastructure error, zero on success and on the ask-user skip.
SinglePathExitContract ==
    epc = "returned" =>
        LET status == SinglePathExitStatus(ret.success, ret.err)
        IN /\ (BackendFailed \/ (ret.err # NoError /\ ~IsAskUserSkipped(ret.err))) =>
                 status # 0
           /\ (ret = [success |-> TRUE, err |-> NoError] \/ IsAskUserSkipped(ret.err)) =>
                 status = 0

\* C25 as stated: on both paths the run command exits nonzero whenever an
\* entity execution failed in its backend or an infrastructure error
\* occurred, and zero on success or on the ask-user skip.
C25_Original ==
    /\ SinglePathExitContract
    /\ ppc = "done" =>
          ((ChildFailedInBackend \/ ChildErrorRecorded) =>
               ProcessPathExitStatus(pret) # 0)

(* ---------------- properties of the dispatch and after ----------------- *)

ShellModes == {ExecutionModeBash}
ScriptModes == {ExecutionModePython, ExecutionModePythonSandbox}
ReasoningModes == {ExecutionModeLLMReasoning, ExecutionModeHybrid}
DispatchedModes == ShellModes \cup ScriptModes \cup ReasoningModes

\* The lifecycle has gone past the switch on the execution mode.
PastDispatch == RunCreated /\ epc \in {"complete", "returned"}

\* C26: the backend invoked is determined by the execution mode: the shell
\* backend for shell mode, the script backend for script mode and the legacy
\* sandboxed-script mode, the reasoning-agent backend for reasoning-agent mode
\* and hybrid mode, each invoked once; for every other mode no backend is
\* invoked and executeEntity returns success=false with a non-nil error.
C26_DispatchIsTotal ==
    /\ calls.dispatch <= 1
    /\ calls.dispatch = 1 =>
          /\ entityResp.ExecutionMode \in ShellModes => backend.name = "bash"
          /\ entityResp.ExecutionMode \in ScriptModes => backend.name = "python"
          /\ entityResp.ExecutionMode \in ReasoningModes => backend.name = "llm"
          /\ entityResp.ExecutionMode \in DispatchedModes
    /\ (PastDispatch /\ entityResp.ExecutionMode \in DispatchedModes) =>
          calls.dispatch = 1
    /\ (PastDispatch /\ entityResp.ExecutionMode \notin DispatchedModes) =>
          /\ calls.dispatch = 0 /\ backend = NoBackend /\ result = NoResult
          /\ epc = "returned"
          /\ ~ret.success /\ ret.err # NoError

\* An entity in the legacy sandboxed-script mode was dispatched to the
\* script backend.
C26_Witness ==
    /\ PastDispatch
    /\ entityResp.ExecutionMode = ExecutionModePythonSandbox
    /\ calls.dispatch = 1
    /\ backend.name = "python"

\* An entity with a mode the switch does not know: no backend, an error.
UnknownModeRefused ==
    /\ PastDispatch
    /\ entityResp.ExecutionMode = UnrecognisedMode
    /\ calls.dispatch = 0
    /\ ret = [success |-> FALSE, err |-> ErrUnknownMode]

\* The completion request of this lifecycle invocation was sent.
CompletionSent == calls.complete = 1
RecordsOfType(t) ==
    {i \in DOMAIN completeReq.ValidationRecords :
        completeReq.ValidationRecords[i].ValidationType = t}
HasOutputSchema == entityResp.OutputSchema # NoSchema
ExtractionFailed == ExtractJSONFromOutput(result.Stdout).err # NoError
SchemaValidationFailed ==
    /\ ~ExtractionFailed
    /\ ValidateOutputs(ExtractJSONFromOutput(result.Stdout).obj,
                       entityResp.OutputSchema) # NoError

\* C27: a completion request that was sent carries exactly one
\* raw-completion record, Pass/Info after a backend success and
\* Fail/Critical after a backend failure, and exactly one output-schema
\* record if and only if the backend succeeded and the entity has an output
\* schema; that record is Warn when extraction failed, Fail when schema
\* validation failed and Pass otherwise; a Failed completion carries none.
C27_ValidationRecords ==
    CompletionSent =>
        LET recs == completeReq.ValidationRecords
            raw == RecordsOfType("OUTPUT")
            schema == RecordsOfType("OUTPUT_SCHEMA")
        IN /\ Cardinality(raw) = 1
           /\ \A i \in raw :
                 IF result.Success
                 THEN /\ recs[i].Outcome = ValidationOutcomePass
                      /\ recs[i].Severity = ValidationSeverityInfo
                 ELSE /\ recs[i].Outcome = ValidationOutcomeFail
                      /\ recs[i].Severity = ValidationSeverityCritical
           /\ Cardinality(schema) = IF result.Success /\ HasOutputSchema THEN 1 ELSE 0
           /\ Len(recs) = Cardinality(raw) + Cardinality(schema)
           /\ \A i \in schema :
                 recs[i].Outcome = IF ExtractionFailed THEN ValidationOutcomeWarn
                                   ELSE IF SchemaValidationFailed THEN ValidationOutcomeFail
                                   ELSE ValidationOutcomePass
           /\ completeReq.Status = ExecutionAttemptStatusFailed => schema = {}

\* A successful command that printed no JSON, for an entity with an output
\* schema: the Success completion carries the raw record and a Warn record.
C27_Witness ==
    /\ CompletionSent
    /\ result.Success
    /\ HasOutputSchema
    /\ result.Stdout = StdoutNoBrace
    /\ completeReq.Status = ExecutionAttemptStatusSuccess
    /\ Len(completeReq.ValidationRecords) = 2
    /\ completeReq.ValidationRecords[2].Outcome = ValidationOutcomeWarn

\* C28 as stated: a structured object attached to a completion that was
\* sent, for an entity with an output schema, passed validation against
\* that schema.
C28_Original ==
    (CompletionSent /\ HasOutputSchema /\ completeReq.Structured # NilObj) =>
        ValidateOutputs(completeReq.Structured, entityResp.OutputSchema) = NoError

\* C29: the inputs handed to the backend are the inputs start-execution
\* returned, also when the entity fetch had returned other inputs.
C29_FreshInputsExecuted ==
    calls.dispatch = 1 => backend.inputs = startResp.Inputs

\* The fetch returned inputs that satisfy the input schema, start-execution
\* returned other inputs, and the backend was handed the latter.
C29_Witness ==
    /\ calls.dispatch = 1
    /\ entityResp.InputSchema # NoSchema
    /\ entityResp.Inputs = InputsConforming
    /\ startResp.Inputs = InputsViolating
    /\ backend.inputs = InputsViolating

\* The order of the steps of one lifecycle invocation.
StepOrder ==
    {<<"fetch", "start">>, <<"start", "dispatch">>, <<"dispatch", "complete">>,
     <<"complete", "returned">>}
\* A step can also return at once (an error, the ask-user skip).
EarlyReturns == {<<"fetch", "returned">>, <<"start", "returned">>, <<"dispatch", "returned">>}
\* The caller starts the invocation and takes its result.
CallAndReturn == {<<"idle", "fetch">>, <<"returned", "idle">>}

\* C30: within one executeEntity invocation the steps occur in the order
\* fetch-entity and checks, start-execution, backend dispatch with output
\* validation, complete-execution; each API operation and the backend are
\* called at most once; start-execution is called only after the entity was
\* fetched, the backend is dispatched only after start-execution succeeded,
\* the completion request is built only from a backend result, and
\* complete-execution is called only after the backend has returned.
C30_StepOrder ==
    /\ [](/\ calls.fetch <= 1 /\ calls.start <= 1
          /\ calls.dispatch <= 1 /\ calls.complete <= 1
          /\ calls.start = 1 => calls.fetch = 1 /\ entityResp # NoEntityResp
          /\ calls.dispatch = 1 => calls.start = 1 /\ RunCreated
          /\ completeReq # NoCompleteReq => calls.dispatch = 1 /\ result # NoResult
          /\ calls.complete = 1 => calls.dispatch = 1 /\ completeReq # NoCompleteReq)
    /\ [][epc' # epc => <<epc, epc'>> \in StepOrder \cup EarlyReturns \cup CallAndReturn]_vars
    /\ [][/\ calls'.fetch > calls.fetch => epc = "fetch"
          /\ calls'.start > calls.start => epc = "start"
          /\ calls'.dispatch > calls.dispatch => epc = "dispatch"
          /\ calls'.complete > calls.complete => epc = "complete"]_vars

\* A lifecycle went through all the steps: every operation was called once
\* and executeEntity returned (true, nil).
C30_Witness ==
    /\ epc = "returned"
    /\ calls = [fetch |-> 1, start |-> 1, dispatch |-> 1, complete |-> 1]
    /\ ret = [success |-> TRUE, err |-> NoError]
    /\ CurrentRun.Status = ExecutionAttemptStatusSuccess

(* ------------- further properties of runProcessExecution --------------- *)

ProcessRuns == {i \in DOMAIN runs : runs[i].EntityID = ProcessEntityID}
NoChildWork == fetchCount = 0 /\ childResults = <<>> /\ epc = "idle" /\ calls = NoCalls
CompletionsReceived == {i \in DOMAIN runs : runs[i].completes > 0}

\* C31: the driver creates exactly one run for the Process entity, with the
\* "PROCESS" mode marker in the start request, before it fetches or executes
\* any child task; when creating that run fails the driver returns the start
\* error having fetched no child, executed none and called complete-execution
\* for nothing.
C31_ProcessRunFirst ==
    /\ ppc = "start" => runs = <<>> /\ NoChildWork /\ processCompleteCalls = 0
    /\ (ppc # "start" /\ fetchCount = 0) =>
          /\ lastStartReq.EntityID = ProcessEntityID
          /\ lastStartReq.ExecutionMode = ProcessModeMarker
    /\ (ppc # "start" /\ pret # ErrStartProcessRun) =>
          /\ ProcessRuns = {processRunID}
          /\ processRunID = 1
    /\ pret = ErrStartProcessRun =>
          /\ ppc = "done"
          /\ runs = <<>>
          /\ NoChildWork
          /\ processCompleteCalls = 0
          /\ CompletionsReceived = {}

\* The Process run was created first and a child run after it.
C31_Witness ==
    /\ ppc = "exec"
    /\ Len(runs) = 2
    /\ ProcessRuns = {1}
    /\ runs[2].EntityID = 1

\* The start-execution call for the Process failed and the driver returned.
ProcessStartFailed == pret = ErrStartProcessRun /\ ppc = "done"

ChildSucceeded == [success |-> TRUE, err |-> NoError]
ChildSkipped == [success |-> FALSE, err |-> ErrAskUserSkipped]
SkippedChildren == {i \in DOMAIN childResults : childResults[i] = ChildSkipped}
OnlySuccessesAndSkips ==
    \A i \in DOMAIN childResults : childResults[i] \in {ChildSucceeded, ChildSkipped}

\* C32: an ask-user skip returned by a child lifecycle is not an error for the
\* driver: the step that takes it back leaves lastError and tasksExecuted as
\* they were and goes on to the next cancellation check; so lastError never
\* holds the skip, and a Process whose children all ended in success or in a
\* skip, with no fetch error and no cancellation, is completed with status
\* Success and no failure reason.
C32_AskUserSkipIsNotAnError ==
    /\ [](lastError # ErrAskUserSkipped)
    /\ []((OnlySuccessesAndSkips /\ exitReason \notin {"cancelled", "fetch_error"}) =>
              lastError = NoError)
    /\ []((/\ ppc = "done"
           /\ processCompleteCalls = 1
           /\ OnlySuccessesAndSkips
           /\ exitReason = "exhausted"
           /\ ~cancelled) =>
              /\ processCompleteReq.Status = ExecutionAttemptStatusSuccess
              /\ processCompleteReq.FailureReason = NoError
              /\ processCompleteReq.tasks_executed =
                    Len(childResults) - Cardinality(SkippedChildren))
    /\ [][(ppc = "exec" /\ epc = "returned" /\ ret = ChildSkipped /\ ppc' # "exec") =>
              /\ lastError' = lastError
              /\ tasksExecuted' = tasksExecuted
              /\ ppc' = "check"
              /\ exitReason' = "none"]_vars

\* A Process with a skipped child and a successful child after it, completed
\* with status Success.
C32_Witness ==
    /\ ppc = "done"
    /\ exitReason = "exhausted"
    /\ ~cancelled
    /\ Len(childResults) = 2
    /\ childResults[1] = ChildSkipped
    /\ childResults[2] = ChildSucceeded
    /\ processCompleteReq.Status = ExecutionAttemptStatusSuccess
    /\ processCompleteReq.tasks_executed = 1

(* --------------------- properties of both drivers ---------------------- *)

DriverWaits == ppc = "exec" \/ lpc = "exec"
ChildRuns == {i \in DOMAIN runs : runs[i].EntityID # ProcessEntityID}

\* C33: tasks are executed one at a time within each sequential driver. A
\* lifecycle is in flight exactly while its driver is inside the
\* executeEntity call, and it is the lifecycle of the task yielded last; a
\* driver leaves that call only when executeEntity has returned; the oracle is
\* asked for the next task only when no lifecycle is in flight and, in a
\* Process run, every child yielded so far has returned; and runs are created
\* for the tasks in the order the oracle yielded them.
C33_OneTaskAtATime ==
    /\ [](epc # "idle" <=> DriverWaits)
    /\ [](DriverWaits => params = fetchCount)
    /\ [](ppc \in {"check", "fetch", "complete", "done"} => Len(childResults) = fetchCount)
    /\ [](ppc = "exec" => Len(childResults) = fetchCount - 1)
    /\ [](\A i, j \in ChildRuns : i < j => runs[i].EntityID < runs[j].EntityID)
    /\ [][/\ (ppc = "exec" /\ ppc' # "exec") => epc = "returned"
          /\ (lpc = "exec" /\ lpc' # "exec") => epc = "returned"
          /\ fetchCount' # fetchCount =>
                /\ epc = "idle"
                /\ epc' = "fetch"
                /\ fetchCount' = fetchCount + 1
                /\ params' = fetchCount']_vars

\* The second child of a Process is in flight after the first has returned.
C33_Witness ==
    /\ ppc = "exec"
    /\ epc = "dispatch"
    /\ params = 2
    /\ Len(childResults) = 1
    /\ Cardinality(ChildRuns) = 2

\* The poll loop is inside executeEntity for the task it fetched.
LoopTaskInFlight == lpc = "exec" /\ epc = "dispatch" /\ params = fetchCount

SuccessfulChildren == {i \in DOMAIN childResults : childResults[i].success}

\* C34: tasksExecuted is at every moment the number of child lifecycles that
\* returned success=true so far, and the tasks_executed metric of the
\* completion request of the Process run is that number: a child that failed
\* in its backend, returned an error or was an ask-user skip is not counted.
C34_TasksExecutedCountsSuccesses ==
    /\ tasksExecuted = Cardinality(SuccessfulChildren)
    /\ processCompleteCalls = 1 =>
          processCompleteReq.tasks_executed = Cardinality(SuccessfulChildren)

\* Three children, the second failing in its backend: tasks_executed is 2.
C34_Witness ==
    /\ ppc = "done"
    /\ processCompleteCalls = 1
    /\ Len(childResults) = 3
    /\ childResults[1].success
    /\ childResults[2] = ExecutionFailure
    /\ childResults[3].success
    /\ processCompleteReq.tasks_executed = 2

(* ------------------- further properties of runLoop --------------------- *)

LaunchedAndRunning == {resumptions[i].RunID : i \in DOMAIN resumptions}

\* C35: the active-resumes set is at every moment exactly the set of run
\* identifiers whose resumption was launched and has not yet returned: the
\* entry is deleted when the resumption returns, with or without an error,
\* and when no launched resumption is left running the set is empty.
C35_ActiveResumesAreRunning ==
    /\ activeResumes = LaunchedAndRunning
    /\ Cardinality(activeResumes) = Len(resumptions)
    /\ resumptions = <<>> => activeResumes = {}

\* A resumption returned an error and its entry is gone, while the resumption
\* of the other run is still running and registered.
C35_Witness ==
    /\ resumeErrLogged
    /\ Len(resumptions) = 1
    /\ activeResumes = {resumptions[1].RunID}

\* Every launched resumption has returned, one of them with an error.
AllResumptionsReturned ==
    /\ resumeErrLogged
    /\ lpc \notin {"recover", "launch"}
    /\ resumptions = <<>>
    /\ activeResumes = {}

(* ------------ further properties of one backend invocation ------------- *)

\* C36 as stated: a shell or script result carries exit code 124 if and only
\* if the execution timed out, so a command that ended by itself with a
\* nonzero status is never reported with exit code 124. Timing out is read
\* in the code's favour: a result with exit code 124 must have seen the
\* deadline pass, and a command killed at the deadline must be reported
\* with exit code 124.
C36_Original ==
    bpc = "returned" =>
        /\ bresult.ExitCode = TimeoutExitCode => deadlineExceeded
        /\ RanPastTimeout => bresult.ExitCode = TimeoutExitCode

\* The part of C36 the code does keep: a command that ended by itself is
\* reported with exit code 124 only if that was its own exit status or the
\* deadline passed before cmd.Run() returned.
SentinelOnlyFromDeadlineOrOwnStatus ==
    (bpc = "returned" /\ bresult.ExitCode = TimeoutExitCode) =>
        deadlineExceeded \/ procStatus = ProcExited(TimeoutExitCode)

(* ---------------- properties of the input injection -------------------- *)

EnvBuilt(u) == xpc[u] \in {"running", "done"}
InlineNames(u) == {xinline[u][i][1] : i \in DOMAIN xinline[u]}
LabelsOf(u) == DOMAIN xinputs[u]
NamesAreDistinct(u) ==
    \A l, m \in LabelsOf(u) : l # m => EnvKey(l) # EnvKey(m)

\* C37 as stated: for an inputs map with n distinct labels the environment
\* of the command gains n distinctly named INPUT_ variables, each holding
\* the JSON encoding of its own label's value; so two executions given the
\* same inputs map give their commands the same variables, in whatever
\* order each of them went through the labels.
C37_Original ==
    /\ \A u \in ExecUnits :
          EnvBuilt(u) =>
             /\ Cardinality(InlineNames(u)) = Cardinality(LabelsOf(u))
             /\ \A l \in LabelsOf(u) :
                   Getenv(xinline[u], EnvKey(l)) = Marshal(xinputs[u][l])
    /\ \A u, v \in ExecUnits :
          (EnvBuilt(u) /\ EnvBuilt(v) /\ xinputs[u] = xinputs[v]) =>
             \A l \in LabelsOf(u) :
                Getenv(xinline[u], EnvKey(l)) = Getenv(xinline[v], EnvKey(l))

\* The part of C37 the code does keep: when the labels of the map have
\* distinct variable names, each name holds its own label's value, whatever
\* the order of the range loop.
InjectionWithDistinctNames ==
    \A u \in ExecUnits :
       (EnvBuilt(u) /\ NamesAreDistinct(u)) =>
          /\ Cardinality(InlineNames(u)) = Cardinality(LabelsOf(u))
          /\ \A l \in LabelsOf(u) :
                Getenv(xinline[u], EnvKey(l)) = Marshal(xinputs[u][l])

\* Two labels with distinct names were injected.
TwoDistinctNamesInjected ==
    \E u \in ExecUnits :
       EnvBuilt(u) /\ NamesAreDistinct(u) /\ Cardinality(LabelsOf(u)) = 2

(* -------------- runLoop after cancellation was delivered --------------- *)

\* C38: after cancellation was delivered the poll loop begins at most one
\* more lifecycle before runLoop returns. It enters a fetch-next-task call
\* only from a cancellation check that found no cancellation, so the only
\* fetch that can return after the delivery is the one that was in flight
\* at the delivery; a lifecycle begins, and a run is created, only for the
\* task of such a fetch; and from a cancellation check that follows the
\* delivery runLoop returns.
C38_AtMostOneMoreLifecycle ==
    /\ []((cancelled /\ lpc = "fetch") => cancelAt = "during_fetch")
    /\ [][/\ (lpc # "fetch" /\ lpc' = "fetch") => (lpc = "check" /\ ~cancelled)
          /\ (cancelled /\ lpc = "check" /\ lpc' # "check") => lpc' = "returned"
          /\ (cancelled /\ fetchCount' # fetchCount) =>
                (lpc = "fetch" /\ cancelAt = "during_fetch" /\ fetchCount' = fetchCount + 1)
          /\ (cancelled /\ epc = "idle" /\ epc' # "idle") =>
                (lpc = "fetch" /\ cancelAt = "during_fetch")
          /\ (cancelled /\ Len(runs') > Len(runs)) =>
                (lpc = "exec" /\ Len(runs') = Len(runs) + 1)]_vars

\* Cancellation was delivered while a fetch-next-task call was in flight;
\* the task it returned was dispatched, its lifecycle ran to the end with a
\* run created after the delivery, and runLoop has returned.
C38_Witness ==
    /\ lpc = "returned"
    /\ cancelAt = "during_fetch"
    /\ lastFetch = "task"
    /\ lastTask = [success |-> TRUE, err |-> NoError]
    /\ Len(runs) = 1
    /\ fetchCount = 1

\* C39: runLoop never joins its background resumptions. In every behaviour
\* in which cancellation is delivered and some resumption never finishes,
\* runLoop still returns, with the active-resumes set non-empty; and the step
\* that returns leaves the set and the resumptions as they are.
C39_ReturnDoesNotJoin ==
    /\ (<>cancelled /\ <>[](activeResumes # {})) =>
          <>(lpc = "returned" /\ activeResumes # {})
    /\ [][(lpc # "returned" /\ lpc' = "returned") =>
             (activeResumes' = activeResumes /\ resumptions' = resumptions)]_vars

\* runLoop has returned while the resumption of a run is still running: the
\* run's identifier is in the active-resumes set.
C39_Witness ==
    /\ lpc = "returned"
    /\ lret = NoError
    /\ activeResumes # {}
    /\ \E r \in activeResumes : RunningResumptions(r) # {}

(* --------------- the Process driver and an endless oracle -------------- *)

LoopExits == {"cancelled", "fetch_error", "exhausted"}
AbortedBeforeRun ==
    {[success |-> FALSE, err |-> e] :
        e \in {ErrFetchEntity, ErrDependenciesNotMet, ErrInputValidation, ErrStartExecution}}
InLoop == ppc \in {"check", "fetch", "exec"}

\* C40: the driver has no iteration bound of its own. With every API call
\* and child lifecycle returning, it calls complete-execution for the Process
\* run only after the oracle returned no task or an error or cancellation
\* was observed, and it does call it once one of these has happened or
\* cancellation was delivered to a running driver; the return of a child
\* never ends the loop; and in a behaviour in which the loop is never left
\* (the oracle keeps yielding a task) the driver fetches and executes again
\* and again: it has no position in which it sleeps or waits.
C40_NoIterationBound ==
    /\ [](processCompleteCalls > 0 => exitReason \in LoopExits)
    /\ [](ppc \in {"complete", "done"} /\ processRunID # 0 => exitReason \in LoopExits)
    /\ [](exitReason = "cancelled" => cancelled)
    /\ [](ppc \in {"start", "check", "fetch", "exec", "complete", "done"})
    /\ (exitReason \in LoopExits) ~> (processCompleteCalls = 1 /\ ppc = "done")
    /\ (cancelled /\ InLoop) ~> (processCompleteCalls = 1 /\ ppc = "done")
    /\ <>[]InLoop => ([]<>(ppc = "fetch") /\ []<>(ppc = "exec"))

\* The endless oracle has yielded the task again after its lifecycle aborted
\* before a run was created: no child run exists and the driver is executing
\* the task once more.
C40_Witness ==
    /\ planned = Endless
    /\ ppc = "exec"
    /\ epc = "fetch"
    /\ childResults # <<>>
    /\ childResults[1] \in AbortedBeforeRun
    /\ lastError = childResults[1].err
    /\ Len(runs) = 1
    /\ ~cancelled

\* The driver completes the Process run in every behaviour: refuted by the
\* behaviour in which the oracle yields a task for ever.
DriverAlwaysCompletes == <>(ppc = "done")

====
